---- MODULE Spec2Model ----
(***************************************************************************)
(* Sentiment scoring pipeline of MoodRingMarkets.                          *)
(*                                                                         *)
(* Two batch programs share one pipeline:                                  *)
(*   site "csv" : scripts/market_sentiment_csv.js (rows of a CSV file)     *)
(*   site "dir" : the directory scorer (files below a directory)           *)
(* Both run main(): open the output file, write the header, and for each   *)
(* input row call scoreMarket(), write one line, sleep REQUEST_DELAY_MS.   *)
(* scoreMarket() asks the model up to five times, retrying on rate limits  *)
(* only, and turns the reply text into a record through cleanJsonString,   *)
(* JSON.parse, coerceSentimentShape and tryRepairs.                        *)
(*                                                                         *)
(* Strings are strings; numbers are fixed-point integers in units of       *)
(* 1/Unit.  The typographic quotes U+201C/U+201D/U+2018/U+2019 are written *)
(* with the ASCII stand-ins named LDQUO/RDQUO/LSQUO/RSQUO.                 *)
(***************************************************************************)
EXTENDS Integers, Sequences, FiniteSets, TLC

(***************************************************************************)
(* Bounds of the model.                                                    *)
(***************************************************************************)
MaxRows == 2

(***************************************************************************)
(* String primitives (String.prototype and RegExp pieces the code uses).   *)
(***************************************************************************)
Unit == 100 * 100

\* Body applied to the value of e: e is evaluated once, however often Body
\* uses its argument
WithValue(e, Body(_)) == CHOOSE r \in {Body(v) : v \in {e}} : TRUE

Ch(s, k) == SubSeq(s, k, k)

IsWs(c) == c \in {" ", "\n", "\t", "\r"}

Includes(s, sub) ==
  WithValue(s, LAMBDA v :
    \E k \in 1..(Len(v) - Len(sub) + 1) : SubSeq(v, k, k + Len(sub) - 1) = sub)

StartsWith(s, pre) ==
  WithValue(s, LAMBDA v : Len(v) >= Len(pre) /\ SubSeq(v, 1, Len(pre)) = pre)

EndsWith(s, suf) ==
  WithValue(s, LAMBDA v :
    Len(v) >= Len(suf) /\ SubSeq(v, Len(v) - Len(suf) + 1, Len(v)) = suf)

RECURSIVE TrimStart(_)
TrimStart(s) ==
  WithValue(s, LAMBDA v :
    IF Len(v) > 0 /\ IsWs(Ch(v, 1)) THEN TrimStart(SubSeq(v, 2, Len(v)))
    ELSE v)

RECURSIVE TrimEnd(_)
TrimEnd(s) ==
  WithValue(s, LAMBDA v :
    IF Len(v) > 0 /\ IsWs(Ch(v, Len(v)))
    THEN TrimEnd(SubSeq(v, 1, Len(v) - 1)) ELSE v)

Trim(s) == TrimEnd(TrimStart(s))

UpperAlpha == "ABCDEFGHIJKLMNOPQRSTUVWXYZ"
LowerAlpha == "abcdefghijklmnopqrstuvwxyz"

\* the lower-case letter of each upper-case letter, and the reverse
LowerOf ==
  [c \in {Ch(UpperAlpha, k) : k \in 1..26} |->
     Ch(LowerAlpha, CHOOSE k \in 1..26 : Ch(UpperAlpha, k) = c)]
UpperOf ==
  [c \in {Ch(LowerAlpha, k) : k \in 1..26} |->
     Ch(UpperAlpha, CHOOSE k \in 1..26 : Ch(LowerAlpha, k) = c)]

LowerCh(c) == IF c \in DOMAIN LowerOf THEN LowerOf[c] ELSE c

\* the concatenation G(lo) \o ... \o G(hi), built by halves
RECURSIVE BuildStr(_, _, _)
BuildStr(G(_), lo, hi) ==
  WithValue(<<lo, hi, (lo + hi) \div 2>>,
            LAMBDA b : IF b[1] > b[2] THEN ""
                       ELSE IF b[1] = b[2] THEN G(b[1])
                       ELSE BuildStr(G, b[1], b[3])
                            \o BuildStr(G, b[3] + 1, b[2]))

\* s with every character c replaced by the string F(c)
MapStr(F(_), s) ==
  WithValue(s, LAMBDA v : BuildStr(LAMBDA p : F(Ch(v, p)), 1, Len(v)))

ToLowerCase(s) == MapStr(LowerCh, s)

\* String(n) of a JS number held as n/Unit (at most four decimals)
RECURSIVE StripZeros(_)
StripZeros(d) ==
  WithValue(d, LAMBDA v :
    IF Len(v) > 0 /\ Ch(v, Len(v)) = "0"
    THEN StripZeros(SubSeq(v, 1, Len(v) - 1)) ELSE v)

Pad4(f) ==
  IF f < 10 THEN "000" \o ToString(f)
  ELSE IF f < 100 THEN "00" \o ToString(f)
  ELSE IF f < 1000 THEN "0" \o ToString(f) ELSE ToString(f)

\* the number that stands for the double Infinity; every other number of
\* the model lies strictly between -Infinity and Infinity
Infinity == 10000 * Unit

IsFiniteNum(n) == n < Infinity /\ n > 0 - Infinity

\* String(n)
NumStr(n) ==
  LET a == IF n < 0 THEN 0 - n ELSE n
      ip == a \div Unit
      fp == a % Unit
  IN IF ~IsFiniteNum(n)
     THEN (IF n < 0 THEN "-" ELSE "") \o "Infinity"
     ELSE WithValue(StripZeros(Pad4(fp)), LAMBDA frac :
            (IF n < 0 THEN "-" ELSE "") \o ToString(ip)
            \o (IF frac = "" THEN "" ELSE "." \o frac))

(***************************************************************************)
(* JSON values.  A number n stands for n/Unit.                             *)
(***************************************************************************)
Undef == [ty |-> "undefined"]
Null == [ty |-> "null"]
Num(n) == [ty |-> "number", n |-> n]
Str(s) == [ty |-> "string", s |-> s]
\* an object with the keys coerceSentimentShape reads (Undef = key absent)
Obj(label, score, summary, reason, explanation, tickers) ==
  [ty |-> "object", label |-> label, score |-> score, summary |-> summary,
   reason |-> reason, explanation |-> explanation, tickers |-> tickers]
\* an object used as a tickers mapping: entries in key order
Mapping(ent) == [ty |-> "object", ent |-> ent]
\* the value of one mapping entry when it is itself an object
TickerObj(score, explanation) ==
  [ty |-> "object", score |-> score, explanation |-> explanation]
Arr(ent) == [ty |-> "array", ent |-> ent]
\* an element of a tickers array
TickerEntry(ticker, symbol, code, score, explanation) ==
  [ty |-> "object", ticker |-> ticker, symbol |-> symbol, code |-> code,
   score |-> score, explanation |-> explanation]

\* JavaScript truthiness of a JSON value
Truthy(v) ==
  CASE v.ty = "undefined" -> FALSE
    [] v.ty = "null" -> FALSE
    [] v.ty = "number" -> v.n # 0
    [] v.ty = "string" -> v.s # ""
    [] OTHER -> TRUE

(***************************************************************************)
(* Texts the model may answer with, and JSON.parse on the strings the      *)
(* pipeline hands to it.  JSON.parse is the runtime's: it is given by its  *)
(* results; every string not listed is one it rejects.                     *)
(***************************************************************************)
TextPlain ==
  "{\"label\":\"Bullish\",\"score\":0.45,\"summary\":\"ok\",\"tickers\":{}}"
\* the backquote character, and the code fence made of three of them
BT == SubSeq("`'", 1, 1)
Fence == BT \o BT \o BT
TextFenced ==
  Fence \o "json\n{\"label\":\"bearish\",\"score\":\"-60%\",\"reason\":\"r\",}\n"
  \o Fence
TextFencedRepaired ==
  "{\"label\":\"bearish\",\"score\":\"-60%\",\"reason\":\"r\"}"
TextProse == "I cannot rate this."
TextGarbage == "{\"label\":\"unsure\",\"score\":\"n/a\"}"
TextSingle == "Sure! {'score': 80, 'tickers': {'aapl': '75'}}"
TextSingleRepaired == "{\"score\": 80, \"tickers\": {\"aapl\": \"75\"}}"

Texts == {TextPlain, TextFenced, TextProse, TextGarbage, TextSingle, ""}

\* valid JSON whose summary holds typographic double quotes, a typographic
\* apostrophe, an ASCII apostrophe, a comma before a closing bracket
TextCurly ==
  "{\"label\":\"Bullish\",\"score\":0.45,\"summary\":\"^ok~\"}"
TextCurlyApos ==
  "{\"label\":\"Bullish\",\"score\":0.45,\"summary\":\"it>s\"}"
TextApos ==
  "{\"label\":\"Bullish\",\"score\":0.45,\"summary\":\"it's\"}"
TextCommaIn ==
  "{\"label\":\"Bullish\",\"score\":0.45,\"summary\":\"a,]\"}"
TextCommaInRepaired ==
  "{\"label\":\"Bullish\",\"score\":0.45,\"summary\":\"a]\"}"
\* valid JSON that is no sentiment record, with a comma before a bracket
TextCommaInGarbage ==
  "{\"label\":\"unsure\",\"score\":\"n/a\",\"summary\":\"a,]\"}"
TextCommaInGarbageRepaired ==
  "{\"label\":\"unsure\",\"score\":\"n/a\",\"summary\":\"a]\"}"
\* the same valid JSON after a sentence of prose
TextProseThenJson == "Here you go: " \o TextCommaIn
\* fenced, with a trailing comma before "]" and before "}"
TextFencedArray ==
  Fence \o "json\n{\"label\":\"bearish\",\"score\":\"-60%\","
  \o "\"tickers\":[{\"ticker\":\"aapl\",\"score\":0.5},],}\n" \o Fence
TextFencedArrayRepaired ==
  "{\"label\":\"bearish\",\"score\":\"-60%\","
  \o "\"tickers\":[{\"ticker\":\"aapl\",\"score\":0.5}]}"
\* fenced, with a trailing comma, and typographic quotes in a string
TextFencedCurly ==
  Fence \o "json\n{\"label\":\"bearish\",\"score\":\"-60%\","
  \o "\"reason\":\"^r~\",}\n" \o Fence

\* replies whose label is Error, with and without a usable score, and a
\* reply whose label is the name of a property every object inherits
TextErrorLabel == "{\"label\":\"Error\",\"score\":0.1,\"summary\":\"e\"}"
TextErrorOnly == "{\"label\":\"Error\",\"summary\":\"e\"}"
TextConstructor == "{\"label\":\"constructor\",\"score\":0.5}"

ExtractInputs ==
  Texts \cup {TextCurly, TextCurlyApos, TextApos, TextCommaIn,
              TextCommaInGarbage, TextProseThenJson, TextFencedArray,
              TextFencedCurly, TextErrorLabel, TextErrorOnly,
              TextConstructor}

JsonTable ==
  (TextPlain :> Obj(Str("Bullish"), Num(4500), Str("ok"), Undef, Undef,
                    Mapping(<<>>)))
  @@ (TextFencedRepaired :> Obj(Str("bearish"), Str("-60%"), Undef, Str("r"),
                                Undef, Undef))
  @@ (TextGarbage :> Obj(Str("unsure"), Str("n/a"), Undef, Undef, Undef,
                         Undef))
  @@ (TextSingleRepaired :> Obj(Undef, Num(80 * Unit), Undef, Undef, Undef,
                                Mapping(<<[k |-> "aapl", v |-> Str("75")]>>)))
  @@ (TextCurly :> Obj(Str("Bullish"), Num(4500), Str("^ok~"), Undef, Undef,
                       Undef))
  @@ (TextErrorLabel :> Obj(Str("Error"), Num(1000), Str("e"), Undef, Undef,
                            Undef))
  @@ (TextErrorOnly :> Obj(Str("Error"), Undef, Str("e"), Undef, Undef,
                           Undef))
  @@ (TextConstructor :> Obj(Str("constructor"), Num(5000), Undef, Undef,
                             Undef, Undef))
  @@ (TextCurlyApos :> Obj(Str("Bullish"), Num(4500), Str("it>s"), Undef,
                           Undef, Undef))
  @@ (TextApos :> Obj(Str("Bullish"), Num(4500), Str("it's"), Undef, Undef,
                      Undef))
  @@ (TextCommaIn :> Obj(Str("Bullish"), Num(4500), Str("a,]"), Undef, Undef,
                         Undef))
  @@ (TextCommaInRepaired :> Obj(Str("Bullish"), Num(4500), Str("a]"), Undef,
                                 Undef, Undef))
  @@ (TextCommaInGarbage :> Obj(Str("unsure"), Str("n/a"), Str("a,]"), Undef,
                                Undef, Undef))
  @@ (TextCommaInGarbageRepaired :> Obj(Str("unsure"), Str("n/a"), Str("a]"),
                                        Undef, Undef, Undef))
  @@ (TextFencedArrayRepaired :>
        Obj(Str("bearish"), Str("-60%"), Undef, Undef, Undef,
            Arr(<<TickerEntry(Str("aapl"), Undef, Undef, Num(5000),
                              Undef)>>)))

safeParseJson(s) ==
  WithValue(s, LAMBDA v : IF v \in DOMAIN JsonTable THEN JsonTable[v]
                          ELSE Null)

(***************************************************************************)
(* cleanJsonString, the brace match and tryRepairs.                        *)
(***************************************************************************)
LDQUO == "^"
RDQUO == "~"
LSQUO == "<"
RSQUO == ">"

AsciiQuote(c) ==
  IF c \in {LDQUO, RDQUO} THEN "\""
  ELSE IF c \in {LSQUO, RSQUO} THEN "'" ELSE c

\* s.replace(/^```json\s*/i, '')
StripFenceJson(s) ==
  WithValue(s, LAMBDA v :
    IF Len(v) >= 7 /\ ToLowerCase(SubSeq(v, 1, 7)) = Fence \o "json"
    THEN TrimStart(SubSeq(v, 8, Len(v))) ELSE v)

\* s.replace(/^```\s*/i, '')
StripFenceOpen(s) ==
  WithValue(s, LAMBDA v :
    IF StartsWith(v, Fence) THEN TrimStart(SubSeq(v, 4, Len(v))) ELSE v)

\* s.replace(/```\s*$/i, ''): the leftmost fence with only whitespace after it
StripFenceClose(s) ==
  WithValue(s, LAMBDA v :
    LET Hit(p) == /\ SubSeq(v, p, p + 2) = Fence
                  /\ \A q \in (p + 3)..Len(v) : IsWs(Ch(v, q))
    IN WithValue({p \in 1..(Len(v) - 2) : Hit(p)}, LAMBDA hits :
         IF hits = {} THEN v
         ELSE SubSeq(v, 1,
                     (CHOOSE p \in hits : \A q \in hits : p <= q) - 1)))

cleanJsonString(raw) ==
  IF raw = "" THEN ""
  ELSE MapStr(AsciiQuote,
              Trim(StripFenceClose(StripFenceOpen(StripFenceJson(Trim(raw))))))

\* cleaned.match(/\{[\s\S]*\}/): first "{" up to the last "}" after it;
\* the input itself when there is no match
BraceMatch(s) ==
  WithValue(s, LAMBDA v :
    WithValue({p \in 1..Len(v) : Ch(v, p) = "{"}, LAMBDA lefts :
      IF lefts = {} THEN v
      ELSE WithValue(CHOOSE p \in lefts : \A q \in lefts : p <= q,
             LAMBDA first :
               WithValue({p \in 1..Len(v) : Ch(v, p) = "}" /\ p > first},
                 LAMBDA rights :
                   IF rights = {} THEN v
                   ELSE SubSeq(v, first,
                               CHOOSE p \in rights :
                                 \A q \in rights : p >= q)))))

\* t.replace(/,(\s*[}\]])/g, '$1')
DropTrailingCommas(t) ==
  WithValue(t, LAMBDA v :
    LET Dead(p) == /\ Ch(v, p) = ","
                   /\ \E q \in (p + 1)..Len(v) :
                        /\ Ch(v, q) \in {"}", "]"}
                        /\ \A w \in (p + 1)..(q - 1) : IsWs(Ch(v, w))
    IN BuildStr(LAMBDA p : IF Dead(p) THEN "" ELSE Ch(v, p), 1, Len(v)))

\* t.replace(/'([^']*)'/g, '"$1"'): quotes are paired left to right, an odd
\* last one stays
SingleToDouble(t) ==
  WithValue(t, LAMBDA v :
    WithValue({p \in 1..Len(v) : Ch(v, p) = "'"}, LAMBDA quotes :
      LET Rank(p) == Cardinality({q \in quotes : q <= p})
          Paired(p) == /\ p \in quotes
                       /\ Rank(p) <= 2 * (Cardinality(quotes) \div 2)
      IN BuildStr(LAMBDA p : IF Paired(p) THEN "\"" ELSE Ch(v, p),
                  1, Len(v))))

tryRepairs(s) ==
  WithValue(DropTrailingCommas(s), LAMBDA t :
    IF ~Includes(t, "\"") /\ Includes(t, "'")
    THEN SingleToDouble(t)
    ELSE t)

(***************************************************************************)
(* The schema coercer.                                                     *)
(***************************************************************************)
\* String(v) of a JSON value
StringOf(v) ==
  CASE v.ty = "string" -> v.s
    [] v.ty = "number" -> NumStr(v.n)
    [] v.ty = "null" -> "null"
    [] v.ty = "undefined" -> "undefined"
    [] OTHER -> "[object Object]"

StripWsUnderscore(c) == IF IsWs(c) \/ c = "_" THEN "" ELSE c

LabelMap ==
  ("verybearish" :> "VeryBearish") @@ ("bearish" :> "Bearish")
  @@ ("negative" :> "Bearish") @@ ("downbeat" :> "Bearish")
  @@ ("neutral" :> "Neutral") @@ ("mixed" :> "Neutral")
  @@ ("balanced" :> "Neutral") @@ ("bullish" :> "Bullish")
  @@ ("positive" :> "Bullish") @@ ("upbeat" :> "Bullish")
  @@ ("slightlybullish" :> "Bullish") @@ ("somewhatbullish" :> "Bullish")
  @@ ("verybullish" :> "VeryBullish") @@ ("verypositive" :> "VeryBullish")
  @@ ("verynegative" :> "VeryBearish")

\* what `map[k]` finds on Object.prototype for a lower-case k without
\* underscores: the constructor function, here by its String() form
InheritedLabel == "function Object() { [native code] }"

\* "" stands for null
normalizeLabel(label) ==
  IF ~Truthy(label) THEN ""
  ELSE WithValue(MapStr(StripWsUnderscore, ToLowerCase(StringOf(label))),
         LAMBDA k : IF k \in DOMAIN LabelMap THEN LabelMap[k]
                    ELSE IF k = "constructor" THEN InheritedLabel ELSE "")

UpperCh(c) == IF c \in DOMAIN UpperOf THEN UpperOf[c] ELSE c

IsDigit(c) == c \in {"0", "1", "2", "3", "4", "5", "6", "7", "8", "9"}
IsUpperAlnum(c) == IsDigit(c) \/ c \in DOMAIN LowerOf

\* a faulty filter, for comparison: no limit on the length
KeepLongKeys(k) ==
  IF k.ty # "string" THEN ""
  ELSE WithValue(MapStr(UpperCh, Trim(k.s)), LAMBDA up :
         IF up = "" \/ ~(\A p \in 1..Len(up) : IsUpperAlnum(Ch(up, p)))
         THEN "" ELSE up)

\* "" stands for null
normalizeTickerKey(k) ==
  IF k.ty # "string" THEN ""
  ELSE WithValue(MapStr(UpperCh, Trim(k.s)), LAMBDA up :
         IF up = "" \/ Len(up) > 6
            \/ ~(\A p \in 1..Len(up) : IsUpperAlnum(Ch(up, p)))
         THEN "" ELSE up)

\* Number(s) for decimal literals of at most four decimals and for
\* Infinity; NaN is Undef
RECURSIVE DigitsVal(_)
DigitsVal(d) ==
  IF Len(d) = 0 THEN 0
  ELSE 10 * DigitsVal(SubSeq(d, 1, Len(d) - 1))
       + (CHOOSE k \in 0..9 : Ch("0123456789", k + 1) = Ch(d, Len(d)))

ToNumber(str) ==
  WithValue(Trim(str), LAMBDA t :
    LET neg == StartsWith(t, "-")
        AllDigits(d) == \A p \in 1..Len(d) : IsDigit(Ch(d, p))
    IN WithValue(IF neg \/ StartsWith(t, "+") THEN SubSeq(t, 2, Len(t))
                 ELSE t,
         LAMBDA body :
           LET dots == {p \in 1..Len(body) : Ch(body, p) = "."}
               dot == IF dots = {} THEN Len(body) + 1
                      ELSE CHOOSE p \in dots : \A q \in dots : p <= q
           IN WithValue(<<SubSeq(body, 1, dot - 1),
                          SubSeq(body, dot + 1, Len(body))>>,
                LAMBDA part :
                  LET ip == part[1]
                      fp == part[2]
                      mag == DigitsVal(ip) * Unit
                             + DigitsVal(SubSeq(fp \o "0000", 1, 4))
                  IN IF t = "" THEN Num(0)
                     ELSE IF body = "Infinity"
                          THEN Num(IF neg THEN 0 - Infinity ELSE Infinity)
                     ELSE IF /\ AllDigits(ip)
                             /\ AllDigits(fp)
                             /\ Len(ip) + Len(fp) > 0
                             /\ Len(fp) <= 4
                          THEN Num(IF neg THEN 0 - mag ELSE mag)
                          ELSE Undef)))

\* n / 100 on fixed-point numbers
Div100(n) == IF n < 0 THEN 0 - ((0 - n) \div 100) ELSE n \div 100

Clamp1(n) == IF n > Unit THEN Unit ELSE IF n < 0 - Unit THEN 0 - Unit ELSE n

\* Undef stands for undefined
parseScore(val) ==
  IF val.ty = "number" THEN val
  ELSE IF val.ty = "string"
  THEN WithValue(Trim(val.s), LAMBDA s0 :
         LET percent == EndsWith(s0, "%")
         IN WithValue(ToNumber(IF percent THEN SubSeq(s0, 1, Len(s0) - 1)
                               ELSE s0),
              LAMBDA n :
                IF n.ty # "number" THEN Undef
                ELSE IF percent THEN Num(Clamp1(Div100(n.n)))
                ELSE IF n.n > Unit /\ n.n <= 100 * Unit
                     THEN Num(Div100(n.n))
                ELSE IF n.n < 0 - Unit /\ n.n >= 0 - 100 * Unit
                     THEN Num(Div100(n.n))
                ELSE n))
  ELSE Undef

\* tickers[key] = entry on an insertion-ordered object
PutTicker(tickers, key, score, explanation) ==
  LET e == [k |-> key, score |-> score, explanation |-> explanation]
  IN IF \E p \in 1..Len(tickers) : tickers[p].k = key
     THEN [p \in 1..Len(tickers) |->
             IF tickers[p].k = key THEN e ELSE tickers[p]]
     ELSE Append(tickers, e)

StringOr(v, dflt) == IF v.ty = "string" THEN v.s ELSE dflt

\* the loop over Object.entries(obj.tickers)
RECURSIVE MappingTickers(_, _)
MappingTickers(ent, acc) ==
  IF Len(ent) = 0 THEN acc
  ELSE LET rawVal == Head(ent).v
           Put(key, tScore) ==
             IF key = "" THEN acc
             ELSE IF rawVal.ty \in {"null", "undefined"}
                  THEN PutTicker(acc, key, 0, "")
             ELSE IF rawVal.ty \in {"number", "string"}
                  THEN IF tScore.ty # "number" THEN acc
                       ELSE PutTicker(acc, key, tScore.n, "")
             ELSE IF rawVal.ty = "object"
                  THEN IF tScore.ty # "number" THEN acc
                       ELSE PutTicker(acc, key, tScore.n,
                                      StringOr(rawVal.explanation, ""))
             ELSE acc
       IN WithValue(
            <<normalizeTickerKey(Str(Head(ent).k)),
              IF rawVal.ty \in {"number", "string"} THEN parseScore(rawVal)
              ELSE IF rawVal.ty = "object" THEN parseScore(rawVal.score)
              ELSE Undef>>,
            LAMBDA kv : MappingTickers(Tail(ent), Put(kv[1], kv[2])))

\* the loop over the array form of obj.tickers
RECURSIVE ArrayTickers(_, _)
ArrayTickers(ent, acc) ==
  IF Len(ent) = 0 THEN acc
  ELSE LET entry == Head(ent)
           rawKey == IF Truthy(entry.ticker) THEN entry.ticker
                     ELSE IF Truthy(entry.symbol) THEN entry.symbol
                     ELSE entry.code
           Put(key, tScore) ==
             IF key # "" /\ tScore.ty = "number"
             THEN PutTicker(acc, key, tScore.n,
                            StringOr(entry.explanation, ""))
             ELSE acc
       IN IF entry.ty # "object" THEN ArrayTickers(Tail(ent), acc)
          ELSE WithValue(
                 <<normalizeTickerKey(rawKey), parseScore(entry.score)>>,
                 LAMBDA kv : ArrayTickers(Tail(ent), Put(kv[1], kv[2])))

InferLabel(scoreNum) ==
  IF scoreNum * 10 <= 0 - 6 * Unit THEN "VeryBearish"
  ELSE IF scoreNum * 10 < 0 - 2 * Unit THEN "Bearish"
  ELSE IF scoreNum * 10 <= 2 * Unit THEN "Neutral"
  ELSE IF scoreNum * 10 < 6 * Unit THEN "Bullish"
  ELSE "VeryBullish"

Record(label, score, summary, tickers) ==
  [ty |-> "record", label |-> label, score |-> score, summary |-> summary,
   tickers |-> tickers]

\* Null stands for null
coerceSentimentShape(obj) ==
  IF obj.ty # "object" THEN Null
  ELSE LET summaryStr ==
             IF obj.summary.ty = "string" THEN obj.summary.s
             ELSE IF obj.reason.ty = "string" THEN obj.reason.s
             ELSE IF obj.explanation.ty = "string" THEN obj.explanation.s
             ELSE ""
           tickers ==
             IF obj.tickers.ty = "object"
             THEN MappingTickers(obj.tickers.ent, <<>>)
             ELSE IF obj.tickers.ty = "array"
             THEN ArrayTickers(obj.tickers.ent, <<>>)
             ELSE <<>>
       IN WithValue(<<normalizeLabel(obj.label), parseScore(obj.score)>>,
            LAMBDA ls :
              LET scoreNum == ls[2]
                  labelNorm == IF ls[1] = "" /\ scoreNum.ty = "number"
                               THEN InferLabel(scoreNum.n) ELSE ls[1]
              IN IF labelNorm = "" \/ scoreNum.ty # "number" THEN Null
                 ELSE Record(labelNorm, scoreNum.n, summaryStr, tickers))

\* scoreMarket's try block after the reply: clean, parse, coerce, and on
\* failure brace match, repairs, parse, coerce.  Null = no result.
ExtractRecord(raw) ==
  WithValue(cleanJsonString(raw), LAMBDA cleaned :
    WithValue(coerceSentimentShape(safeParseJson(cleaned)), LAMBDA result :
      IF result.ty = "record" THEN result
      ELSE coerceSentimentShape(
             safeParseJson(tryRepairs(BraceMatch(cleaned))))))

\* a faulty table, for comparison: every reply yields the record of the
\* plain answer
ExtractedStale == [t \in Texts |-> ExtractRecord(TextPlain)]

\* what each text the model may answer with is extracted to
Extracted == [t \in Texts |-> ExtractRecord(t)]

(***************************************************************************)
(* Output rows: csvRow, JSON.stringify of the tickers, and parseLine,      *)
(* which reads a written row back into its cells.                          *)
(***************************************************************************)
\* a faulty escaping, for comparison: the double quote is not doubled
KeepQuote(c) == c

DoubleQuote(c) == IF c = "\"" THEN "\"\"" ELSE c

\* cells.join(",")
JoinCells(cells) ==
  WithValue(cells, LAMBDA c :
    BuildStr(LAMBDA p : IF p = 1 THEN c[p] ELSE "," \o c[p], 1, Len(c)))

\* cells are the String(v ?? "") of the values
csvRow(cells) ==
  WithValue(cells, LAMBDA c :
    JoinCells([p \in 1..Len(c) |->
                 "\"" \o MapStr(DoubleQuote, c[p]) \o "\""]))

JsonEscape(c) ==
  CASE c = "\"" -> "\\\""
    [] c = "\\" -> "\\\\"
    [] c = "\n" -> "\\n"
    [] c = "\t" -> "\\t"
    [] c = "\r" -> "\\r"
    [] OTHER -> c

JsonString(str) == "\"" \o MapStr(JsonEscape, str) \o "\""

\* JSON.stringify of a number: a number that is not finite is written null
JsonNumber(n) == IF IsFiniteNum(n) THEN NumStr(n) ELSE "null"

\* JSON.stringify(r.tickers || {})
JsonStringifyTickers(tickers) ==
  "{" \o JoinCells([p \in 1..Len(tickers) |->
                      JsonString(tickers[p].k) \o ":{\"score\":"
                      \o JsonNumber(tickers[p].score) \o ",\"explanation\":"
                      \o JsonString(tickers[p].explanation) \o "}"])
  \o "}"

(***************************************************************************)
(* JSON.parse on the text of a tickers cell: an object whose members are   *)
(* objects with a score (a number or null) and an explanation (a string).  *)
(* A result is [ok, val], ok = FALSE standing for the SyntaxError.         *)
(***************************************************************************)
JsonUnescape(c) ==
  CASE c = "n" -> "\n"
    [] c = "t" -> "\t"
    [] c = "r" -> "\r"
    [] OTHER -> c

NoParse == [ok |-> FALSE, val |-> <<>>, next |-> 0]

\* the string whose first character after the opening quote is at p
RECURSIVE ScanString(_, _, _)
ScanString(str, p, acc) ==
  IF p > Len(str) THEN NoParse
  ELSE IF Ch(str, p) = "\""
  THEN [ok |-> TRUE, val |-> acc, next |-> p + 1]
  ELSE IF Ch(str, p) = "\\"
  THEN IF p = Len(str) THEN NoParse
       ELSE ScanString(str, p + 2, acc \o JsonUnescape(Ch(str, p + 1)))
  ELSE ScanString(str, p + 1, acc \o Ch(str, p))

\* the number or null that starts at p and ends before the next comma
ScanScore(str, p) ==
  LET commas == {q \in p..Len(str) : Ch(str, q) = ","}
  IN IF commas = {} THEN NoParse
     ELSE WithValue(CHOOSE q \in commas : \A r \in commas : q <= r,
            LAMBDA q :
              WithValue(SubSeq(str, p, q - 1), LAMBDA token :
                IF token = "null"
                THEN [ok |-> TRUE, val |-> Null, next |-> q]
                ELSE IF token # "" /\ token # "Infinity"
                        /\ token # "-Infinity" /\ Trim(token) = token
                        /\ ToNumber(token).ty = "number"
                THEN [ok |-> TRUE, val |-> ToNumber(token), next |-> q]
                ELSE NoParse))

HasAt(str, p, lit) ==
  p + Len(lit) - 1 <= Len(str) /\ SubSeq(str, p, p + Len(lit) - 1) = lit

\* the members from position p on, acc holding the members read so far
RECURSIVE ParseMembers(_, _, _)
ParseMembers(str, p, acc) ==
  IF ~HasAt(str, p, "\"") THEN NoParse
  ELSE WithValue(ScanString(str, p + 1, ""), LAMBDA key :
    IF ~key.ok \/ ~HasAt(str, key.next, ":{\"score\":") THEN NoParse
    ELSE WithValue(ScanScore(str, key.next + 10), LAMBDA score :
      IF ~score.ok \/ ~HasAt(str, score.next, ",\"explanation\":\"")
      THEN NoParse
      ELSE WithValue(ScanString(str, score.next + 16, ""), LAMBDA expl :
        IF ~expl.ok \/ ~HasAt(str, expl.next, "}") THEN NoParse
        ELSE LET read == PutTicker(acc, key.val, score.val, expl.val)
             IN IF HasAt(str, expl.next + 1, "}")
                   /\ expl.next + 1 = Len(str)
                THEN [ok |-> TRUE, val |-> read, next |-> Len(str) + 1]
                ELSE IF HasAt(str, expl.next + 1, ",")
                THEN ParseMembers(str, expl.next + 2, read)
                ELSE NoParse)))

JsonParseTickers(str) ==
  IF str = "{}" THEN [ok |-> TRUE, val |-> <<>>, next |-> 3]
  ELSE IF HasAt(str, 1, "{") THEN ParseMembers(str, 2, <<>>)
  ELSE NoParse

\* one pass of parseLine's loop body, on the loop state st
ParseLineStep(line, st) ==
  LET ch == Ch(line, st.j)
  IN IF ch = "\""
     THEN IF st.inq /\ st.j < Len(line) /\ Ch(line, st.j + 1) = "\""
          THEN [st EXCEPT !.j = @ + 2, !.cur = @ \o "\""]
          ELSE [st EXCEPT !.j = @ + 1, !.inq = ~@]
     ELSE IF ch = "," /\ ~st.inq
          THEN [st EXCEPT !.j = @ + 1, !.cur = "",
                          !.cells = Append(@, st.cur)]
          ELSE [st EXCEPT !.j = @ + 1, !.cur = @ \o ch]

\* at most n passes of the loop
RECURSIVE ParseLineRun(_, _, _)
ParseLineRun(line, st, n) ==
  IF n = 0 \/ st.j > Len(line) THEN st
  ELSE ParseLineRun(line, ParseLineStep(line, st), n - 1)

\* the whole loop, run in stretches of 16 passes
RECURSIVE ParseLineLoop(_, _)
ParseLineLoop(line, st) ==
  IF st.j > Len(line) THEN st
  ELSE ParseLineLoop(line, ParseLineRun(line, st, 16))

parseLine(line) ==
  LET st == ParseLineLoop(line, [j |-> 1, cur |-> "", inq |-> FALSE,
                                 cells |-> <<>>])
  IN Append(st.cells, st.cur)

\* path.basename(p)
Basename(path) ==
  WithValue({p \in 1..Len(path) : Ch(path, p) = "/"}, LAMBDA slashes :
    IF slashes = {} THEN path
    ELSE SubSeq(path, (CHOOSE p \in slashes : \A q \in slashes : p >= q) + 1,
                Len(path)))

HeaderCells(s) ==
  IF s = "csv" THEN <<"url", "title", "label", "score", "summary", "tickers">>
  ELSE <<"path", "file", "label", "score", "summary", "tickers">>

\* the identifying cells of an input row
KeyCells(s, row) ==
  IF s = "csv" THEN <<row.url, row.title>>
  ELSE <<row.path, Basename(row.path)>>

\* the line main writes for the record r that scoreMarket returned
ResultLine(s, row, r) ==
  csvRow(KeyCells(s, row)
         \o <<r.label, NumStr(r.score), r.summary,
              JsonStringifyTickers(r.tickers)>>) \o "\n"

\* the line main's catch block writes for a row-level exception
ErrorLine(s, row, msg) ==
  csvRow(KeyCells(s, row) \o <<"Error", "", msg, "{}">>) \o "\n"

\* the line the directory scorer writes for a file it cannot read
ReadErrorLine(s, row, msg) ==
  csvRow(KeyCells(s, row) \o <<"Error", "", "read error: " \o msg, "{}">>)
  \o "\n"

\* a faulty write, for comparison: the line replaces the file
OverwriteLine(file, line) == <<line>>

\* fh.writeFile(line) on a handle opened with 'w': appends at the position
AppendLine(file, line) == Append(file, line)

(***************************************************************************)
(* Errors the completion request may reject with, as the fields the catch  *)
(* blocks read: e.status, e.error.type, e.error.message, e.name,           *)
(* e.message and the retry-after header ("" = absent).  typeIsString is    *)
(* FALSE when e.error.type is a number; etype is then its String().        *)
(***************************************************************************)
Err(status, etype, typeIsString, emsg, message, retryAfter) ==
  [status |-> status, etype |-> etype, typeIsString |-> typeIsString,
   emsg |-> emsg, name |-> "Error", message |-> message,
   retryAfter |-> retryAfter]

ErrRate429 == Err(429, "error", TRUE, "", "429 too many requests", "3")
ErrRateType == Err(0, "rate_limit_error", TRUE, "slow down", "slow down", "")
ErrNetwork == Err(0, "", TRUE, "", "Connection error.", "")
ErrApi == Err(500, "api_error", TRUE, "Internal error", "500 Internal error",
              "")
ErrInvalid == Err(400, "invalid_request_error", TRUE,
                  "response_format: Extra inputs are not permitted",
                  "400 bad request", "")
ErrOddType == Err(502, "502", FALSE, "", "Bad gateway", "")
ErrOddRate == Err(429, "429", FALSE, "", "Too many requests", "")
\* a 429 whose retry-after header says the request may be repeated at once
ErrRateZero == Err(429, "error", TRUE, "", "429 too many requests", "0")

Errors ==
  {ErrRate429, ErrRateType, ErrNetwork, ErrApi, ErrInvalid, ErrOddType,
   ErrOddRate, ErrRateZero}

\* new Error("Model did not return valid JSON sentiment")
ErrMalformed ==
  Err(0, "", TRUE, "", "Model did not return valid JSON sentiment", "")

NoErr == Err(0, "", TRUE, "", "", "")

\* String(e) of an Error
ErrToString(e) ==
  IF e.message = "" THEN e.name ELSE e.name \o ": " \o e.message

(***************************************************************************)
(* scoreMarket's catch blocks.                                             *)
(***************************************************************************)
MaxAttempts == 5

\* csv: e?.error?.type || e?.message || String(e)
csvMsg(e) ==
  IF e.etype # "" THEN e.etype
  ELSE IF e.message # "" THEN e.message ELSE ErrToString(e)

\* csv: msg.includes exists only on a string
csvMsgIsString(e) == e.etype # "" => e.typeIsString

\* dir: e?.error?.type || e?.name || ''
dirType(e) == IF e.etype # "" THEN e.etype ELSE e.name

\* dir: e?.error?.message || e?.message || String(e)
dirDetail(e) ==
  IF e.emsg # "" THEN e.emsg
  ELSE IF e.message # "" THEN e.message ELSE ErrToString(e)

\* dir: [type, detail].filter(Boolean).join(': ')
dirCombined(e) ==
  IF dirType(e) = "" THEN dirDetail(e)
  ELSE IF dirDetail(e) = "" THEN dirType(e)
  ELSE dirType(e) \o ": " \o dirDetail(e)

\* dir, inner catch: does the failure look like a rejected response_format
maybeIncompatible(e) ==
  \/ Includes(dirType(e), "invalid")
  \/ Includes(ToLowerCase(IF e.emsg # "" THEN e.emsg ELSE e.message),
              "response_format")

\* a different summary, for comparison: the bare message of the error
MessageSummary(s, e) == e.message

\* the summary of the sentinel built from a caught error
ErrorSummary(s, e) ==
  IF s = "csv" THEN csvMsg(e)
  ELSE IF dirCombined(e) = "" THEN "unknown error" ELSE dirCombined(e)

\* a faulty retry test, for comparison: every error is retried
AlwaysRateLimited(s, e) == TRUE

\* the retry test of the catch block
IsRateLimited(s, e) ==
  \/ Includes(IF s = "csv" THEN csvMsg(e) ELSE dirCombined(e), "rate_limit")
  \/ e.status = 429

\* Number(retry-after) * 1000 || 2000 * (attempt + 1), in milliseconds
retryAfterMs(e, attempt) ==
  LET n == ToNumber(e.retryAfter)
  IN IF e.retryAfter # "" /\ n.ty = "number" /\ n.n # 0
     THEN (n.n * 1000) \div Unit
     ELSE 2000 * (attempt + 1)

\* a faulty loop, for comparison: the attempt is not counted
SameAttempt(attempt) == attempt

\* the for loop's attempt++
NextAttempt(attempt) == attempt + 1

Sentinel(summary) == Record("Error", 0, summary, <<>>)

Thrown(message) == [ty |-> "throw", message |-> message]

(***************************************************************************)
(* State of one run of main().                                             *)
(***************************************************************************)
VARIABLES
  site,        \* "csv" or "dir": which program runs
  hasKey,      \* process.env.ANTHROPIC_API_KEY is set
  inputOk,     \* csv: fs.readFile(inCsv) succeeds
  rows,        \* allRows (csv) / files (dir)
  pc,          \* where main() is
  idx,         \* position of the for..of loop in rows (1-based)
  sinkState,   \* "unopened", "open" or "closed"
  sink,        \* the lines in the output file
  opens,       \* how often the output file was opened
  processed,   \* main's counter
  spc,         \* where the running scoreMarket() call is
  attempt,     \* scoreMarket's loop counter
  ret,         \* what scoreMarket() returned or threw
  sleepMs,     \* length of the backoff sleep in progress
  outstanding, \* completion requests in flight
  requests,    \* completion requests issued by the current call
  sleeps,      \* backoff sleeps started by the current call
  allRl,       \* every reply to the current call was a rate-limit error
  last,        \* the latest reply to the current call
  outcomes,    \* per row handled so far: how it ended
  delays,      \* per row: inter-request delays that have elapsed
  calls,       \* per row: how often it was handed to scoreMarket()
  fn,          \* the coercer function under study ("none" in a run of main)
  arg,         \* its argument
  res,         \* its result (Pending before the call)
  hasBtn,      \* the dashboard page has the element refresh-btn
  clickBound,  \* loadStocks listens to the button's click
  isLoading,   \* the dashboard script's isLoading
  stocksData,  \* its stocksData: "empty" ([]), "rows" or "undefined"
  btnDisabled, \* refreshBtn.disabled
  visible,     \* the dashboard has the class visible
  loading,     \* calls of loadStocks between its guard and its finally
  fetching,    \* fetches of /api/stocks awaiting the response
  reading,     \* responses whose json() is awaited
  refused,     \* calls of loadStocks that returned at the guard
  events       \* clicks and scroll events handled so far

\* the dashboard page
page == <<hasBtn, clickBound, isLoading, stocksData, btnDisabled, visible,
          loading, fetching, reading, refused, events>>

vars == <<site, hasKey, inputOk, rows, pc, idx, sinkState, sink, opens,
          processed, spc, attempt, ret, sleepMs, outstanding, requests,
          sleeps, allRl, last, outcomes, delays, calls, fn, arg, res, page>>

config == <<site, hasKey, inputOk, rows, fn, arg, res, page>>
call == <<spc, attempt, ret, sleepMs, outstanding, requests, sleeps, allRl,
          last>>
file == <<sinkState, sink, opens, processed>>

\* counters of the observation saturate here
CounterCap == 2 * MaxAttempts + 2
CountUp(n) == IF n < CounterCap THEN n + 1 ELSE n

InputRow(s, k) ==
  IF s = "csv"
  THEN [url |-> "http://x/" \o ToString(k),
        title |-> "T" \o ToString(k) \o ", \"q\"", path |-> ""]
  ELSE [url |-> "", title |-> "", path |-> "in/d/f" \o ToString(k) \o ".txt"]

NoReply == [kind |-> "none", err |-> NoErr, req |-> 0, slp |-> 0,
            fb |-> FALSE, text |-> ""]

\* the rate-limit signal of the oracle boundary: the status code or the
\* error type
RateLimitSignal(e) ==
  e.status = 429 \/ (e.typeIsString /\ Includes(e.etype, "rate_limit"))

\* main has not started
Idle ==
  /\ pc = "start"
  /\ idx = 1
  /\ sinkState = "unopened"
  /\ sink = <<>>
  /\ opens = 0
  /\ processed = 0
  /\ spc = "idle"
  /\ attempt = 0
  /\ ret = Null
  /\ sleepMs = 0
  /\ outstanding = 0
  /\ requests = 0
  /\ sleeps = 0
  /\ allRl = TRUE
  /\ last = NoReply
  /\ outcomes = <<>>
  /\ delays = [k \in 1..Len(rows) |-> 0]
  /\ calls = [k \in 1..Len(rows) |-> 0]
  /\ clickBound = FALSE
  /\ isLoading = FALSE
  /\ stocksData = "empty"
  /\ btnDisabled = FALSE
  /\ visible = FALSE
  /\ loading = 0
  /\ fetching = 0
  /\ reading = 0
  /\ refused = 0
  /\ events = 0

Pending == [ty |-> "pending"]

Init ==
  /\ site \in {"csv", "dir"}
  /\ hasKey \in BOOLEAN
  /\ inputOk \in (IF site = "csv" THEN BOOLEAN ELSE {TRUE})
  /\ \E n \in 0..MaxRows : rows = [k \in 1..n |-> InputRow(site, k)]
  /\ fn = "none"
  /\ arg = Null
  /\ res = Null
  /\ hasBtn = FALSE
  /\ Idle

(***************************************************************************)
(* main(): start-up.                                                       *)
(***************************************************************************)
\* a faulty start-up, for comparison: the key is not looked at
SkipKeyCheck ==
  /\ pc = "start"
  /\ pc' = "input"
  /\ UNCHANGED <<config, idx, file, call, outcomes, delays, calls>>

\* if (!process.env.ANTHROPIC_API_KEY) throw
CheckKey ==
  /\ pc = "start"
  /\ pc' = IF hasKey THEN "input" ELSE "aborted"
  /\ UNCHANGED <<config, idx, file, call, outcomes, delays, calls>>

\* csv: readFile + parseCSV (a rejected read ends main); dir:
\* listFilesRecursive, which swallows its errors
ReadInput ==
  /\ pc = "input"
  /\ pc' = IF inputOk THEN "open" ELSE "aborted"
  /\ UNCHANGED <<config, idx, file, call, outcomes, delays, calls>>

\* fs.open(outCsv, 'w'): creates or truncates
OpenSink ==
  /\ pc = "open"
  /\ sinkState' = "open"
  /\ sink' = <<>>
  /\ opens' = opens + 1
  /\ pc' = "header"
  /\ UNCHANGED <<config, idx, processed, call, outcomes, delays, calls>>

WriteHeader ==
  /\ pc = "header"
  /\ sink' = AppendLine(sink, csvRow(HeaderCells(site)) \o "\n")
  /\ pc' = "loop"
  /\ UNCHANGED <<config, idx, sinkState, opens, processed, call, outcomes,
                 delays, calls>>

(***************************************************************************)
(* scoreMarket().                                                          *)
(***************************************************************************)
\* the call itself: buildMarketPrompt, attempt = 0
EnterScoreMarket ==
  /\ spc' = "top"
  /\ attempt' = 0
  /\ ret' = Null
  /\ sleepMs' = 0
  /\ requests' = 0
  /\ sleeps' = 0
  /\ allRl' = TRUE
  /\ last' = NoReply
  /\ calls' = [calls EXCEPT ![idx] = CountUp(@)]
  /\ UNCHANGED outstanding

\* main has consumed the call's result: the call's frame is gone
LeaveScoreMarket ==
  /\ spc' = "idle"
  /\ attempt' = 0
  /\ ret' = Null
  /\ sleepMs' = 0
  /\ requests' = 0
  /\ sleeps' = 0
  /\ allRl' = TRUE
  /\ last' = NoReply
  /\ UNCHANGED outstanding

\* a faulty loop, for comparison: the request is issued whatever the
\* attempt
IssueUnbounded ==
  /\ spc = "top"
  /\ spc' = "request"
  /\ outstanding' = outstanding + 1
  /\ requests' = CountUp(requests)
  /\ UNCHANGED <<config, pc, idx, file, attempt, ret, sleepMs, sleeps, allRl,
                 last, outcomes, delays, calls>>

\* attempt < 5: anthropic.messages.create(...)
IssueRequest ==
  /\ spc = "top"
  /\ attempt < MaxAttempts
  /\ spc' = "request"
  /\ outstanding' = outstanding + 1
  /\ requests' = CountUp(requests)
  /\ UNCHANGED <<config, pc, idx, file, attempt, ret, sleepMs, sleeps, allRl,
                 last, outcomes, delays, calls>>

Outcome(kind, label, msg) == [kind |-> kind, label |-> label, msg |-> msg]

\* the loop ran out: return the sentinel after the loop
RetriesExhausted ==
  /\ spc = "top"
  /\ attempt >= MaxAttempts
  /\ spc' = "returned"
  /\ ret' = Sentinel("rate limit retries exhausted")
  /\ outcomes' = Append(outcomes, Outcome("sentinel", "Error",
                                          "rate limit retries exhausted"))
  /\ UNCHANGED <<config, pc, idx, file, attempt, sleepMs, outstanding,
                 requests, sleeps, allRl, last, delays, calls>>

\* the outer catch block, entered with error e
Catch(e) ==
  IF site = "csv" /\ ~csvMsgIsString(e)
  THEN /\ spc' = "thrown"
       /\ ret' = Thrown("msg.includes is not a function")
       /\ outcomes' = Append(outcomes,
                             Outcome("exception", "Error",
                                     "msg.includes is not a function"))
       /\ UNCHANGED <<sleepMs, sleeps>>
  ELSE IF IsRateLimited(site, e)
  THEN /\ spc' = "sleep"
       /\ sleepMs' = retryAfterMs(e, attempt)
       /\ sleeps' = CountUp(sleeps)
       /\ UNCHANGED <<ret, outcomes>>
  ELSE /\ spc' = "returned"
       /\ ret' = Sentinel(ErrorSummary(site, e))
       /\ outcomes' = Append(outcomes, Outcome("sentinel", "Error",
                                               ErrorSummary(site, e)))
       /\ UNCHANGED <<sleepMs, sleeps>>

Reply(kind, e) ==
  [kind |-> kind, err |-> e, req |-> requests, slp |-> sleeps,
   fb |-> (spc = "fallback"), text |-> ""]

\* a request resolves with text t
ReplyText(t) ==
  /\ spc \in {"request", "fallback"}
  /\ outstanding' = outstanding - 1
  /\ allRl' = FALSE
  /\ LET result == Extracted[t]
     IN IF result.ty = "record"
        THEN /\ spc' = "returned"
             /\ ret' = result
             /\ last' = [Reply("record", NoErr) EXCEPT !.text = t]
             /\ outcomes' = Append(outcomes,
                                   Outcome("record", result.label, ""))
             /\ UNCHANGED <<sleepMs, sleeps>>
        ELSE /\ last' = [Reply("malformed", ErrMalformed) EXCEPT !.text = t]
             /\ Catch(ErrMalformed)
  /\ UNCHANGED <<config, pc, idx, file, attempt, requests, delays, calls>>

\* a request rejects with e and the error reaches the outer catch block
ReplyError(e) ==
  /\ spc \in {"request", "fallback"}
  /\ ~(site = "dir" /\ spc = "request" /\ maybeIncompatible(e))
  /\ outstanding' = outstanding - 1
  /\ allRl' = (allRl /\ RateLimitSignal(e))
  /\ last' = Reply("error", e)
  /\ Catch(e)
  /\ UNCHANGED <<config, pc, idx, file, attempt, requests, delays, calls>>

\* dir: the first request rejects with e, the inner catch block takes it
\* for a rejected response_format and asks again without the option
ReplyIncompatible(e) ==
  /\ site = "dir"
  /\ spc = "request"
  /\ maybeIncompatible(e)
  /\ allRl' = (allRl /\ RateLimitSignal(e))
  /\ last' = Reply("error", e)
  /\ spc' = "fallback"
  /\ requests' = CountUp(requests)
  /\ UNCHANGED <<config, pc, idx, file, attempt, ret, sleepMs, outstanding,
                 sleeps, outcomes, delays, calls>>

\* the backoff sleep is over: continue; the caught error e ends with its
\* catch block
Wake ==
  /\ spc = "sleep"
  /\ spc' = "top"
  /\ attempt' = NextAttempt(attempt)
  /\ sleepMs' = 0
  /\ last' = NoReply
  /\ UNCHANGED <<config, pc, idx, file, ret, outstanding, requests, sleeps,
                 allRl, outcomes, delays, calls>>

(***************************************************************************)
(* main(): the loop over the rows.                                         *)
(***************************************************************************)
\* fs.readFile of an input file rejects with this message
ReadErrorMessage == "EACCES: permission denied"

\* where main continues after writing a row, and after the sleep of the
\* read-error branch (its `continue`)
\* faulty continuations, for comparison: no sleep after a written row, and
\* a read-error branch that falls through to the sleep at the end of the body
NoDelay == "loop"
AfterWrite == "delay"
DelayAgain == "delay"
AfterReadErrorDelay == "loop"

\* csv: next row, call scoreMarket(row.text); dir: next file, read it first
LoopNext ==
  /\ pc = "loop"
  /\ idx <= Len(rows)
  /\ IF site = "csv"
     THEN pc' = "score" /\ EnterScoreMarket
     ELSE pc' = "read" /\ UNCHANGED <<call, calls>>
  /\ UNCHANGED <<config, idx, file, outcomes, delays>>

\* dir: the file is read, call scoreMarket(body)
ReadFileOk ==
  /\ pc = "read"
  /\ pc' = "score"
  /\ EnterScoreMarket
  /\ UNCHANGED <<config, idx, file, outcomes, delays>>

\* dir: the file cannot be read: write the read-error row and sleep
ReadFileFail ==
  /\ pc = "read"
  /\ sink' = AppendLine(sink, ReadErrorLine(site, rows[idx], ReadErrorMessage))
  /\ processed' = processed + 1
  /\ outcomes' = Append(outcomes,
                        Outcome("readError", "Error",
                                "read error: " \o ReadErrorMessage))
  /\ pc' = "readErrDelay"
  /\ UNCHANGED <<config, idx, sinkState, opens, call, delays, calls>>

\* scoreMarket returned r: write its row
WriteRow ==
  /\ pc = "score"
  /\ spc = "returned"
  /\ sink' = AppendLine(sink, ResultLine(site, rows[idx], ret))
  /\ processed' = processed + 1
  /\ LeaveScoreMarket
  /\ pc' = AfterWrite
  /\ idx' = IF AfterWrite = "loop" THEN idx + 1 ELSE idx
  /\ UNCHANGED <<config, sinkState, opens, outcomes, delays, calls>>

\* a faulty catch block, for comparison: the row is scored again
RescoreOnThrow ==
  /\ pc = "score"
  /\ spc = "thrown"
  /\ EnterScoreMarket
  /\ UNCHANGED <<config, pc, idx, file, outcomes, delays>>

\* scoreMarket threw: main's catch block writes the error row
WriteErrorRow ==
  /\ pc = "score"
  /\ spc = "thrown"
  /\ sink' = AppendLine(sink, ErrorLine(site, rows[idx], ret.message))
  /\ processed' = processed + 1
  /\ LeaveScoreMarket
  /\ pc' = AfterWrite
  /\ idx' = IF AfterWrite = "loop" THEN idx + 1 ELSE idx
  /\ UNCHANGED <<config, sinkState, opens, outcomes, delays, calls>>

\* sleep(REQUEST_DELAY_MS) at the end of the loop body is over
DelayEnd ==
  /\ pc = "delay"
  /\ delays' = [delays EXCEPT ![idx] = CountUp(@)]
  /\ idx' = idx + 1
  /\ pc' = "loop"
  /\ UNCHANGED <<config, file, call, outcomes, calls>>

\* dir: sleep(REQUEST_DELAY_MS) of the read-error branch is over
ReadErrDelayEnd ==
  /\ pc = "readErrDelay"
  /\ delays' = [delays EXCEPT ![idx] = CountUp(@)]
  /\ pc' = AfterReadErrorDelay
  /\ idx' = IF AfterReadErrorDelay = "loop" THEN idx + 1 ELSE idx
  /\ UNCHANGED <<config, file, call, outcomes, calls>>

\* the loop is over: fh.close()
Close ==
  /\ pc = "loop"
  /\ idx > Len(rows)
  /\ sinkState' = "closed"
  /\ pc' = "done"
  /\ UNCHANGED <<config, idx, sink, opens, processed, call, outcomes,
                 delays, calls>>

Next ==
  \/ CheckKey
  \/ ReadInput
  \/ OpenSink
  \/ WriteHeader
  \/ LoopNext
  \/ ReadFileOk
  \/ ReadFileFail
  \/ IssueRequest
  \/ RetriesExhausted
  \/ \E t \in Texts : ReplyText(t)
  \/ \E e \in Errors : ReplyError(e)
  \/ \E e \in Errors : ReplyIncompatible(e)
  \/ Wake
  \/ WriteRow
  \/ WriteErrorRow
  \/ DelayEnd
  \/ ReadErrDelayEnd
  \/ Close

Spec == Init /\ [][Next]_vars

\* every request and every sleep eventually returns or raises, and main
\* is always resumed: each step that can happen eventually happens
LiveSpec == Spec /\ WF_vars(Next)

TypeOK ==
  /\ pc \in {"start", "input", "aborted", "open", "header", "loop", "read",
             "score", "delay", "readErrDelay", "done"}
  /\ spc \in {"idle", "top", "request", "fallback", "sleep", "returned",
              "thrown"}
  /\ attempt \in 0..MaxAttempts
  /\ outstanding \in 0..1

(***************************************************************************)
(* Properties of the batch run and of the oracle client.                   *)
(***************************************************************************)
\* the cells of the i-th data row of the output file, read back
DataCells(i) == parseLine(SubSeq(sink[i + 1], 1, Len(sink[i + 1]) - 1))

CompleteLine(line) == Len(line) > 0 /\ Ch(line, Len(line)) = "\n"

Failed(o) == o.kind \in {"sentinel", "exception", "readError"}

\* C1: when the run has finished, the output holds exactly one data row per
\* input row after the header, the i-th data row carries the key of the i-th
\* input row and the label its own scoring resolved to, whatever happened to
\* the other rows.
C1_OneRowPerInput ==
  pc = "done" =>
    /\ Len(sink) = Len(rows) + 1
    /\ Len(outcomes) = Len(rows)
    /\ \A i \in 1..Len(rows) :
         /\ Len(DataCells(i)) = 6
         /\ SubSeq(DataCells(i), 1, 2) = KeyCells(site, rows[i])
         /\ DataCells(i)[3] = outcomes[i].label

\* a finished run of two rows whose first row failed and whose second did not
C1_Witness ==
  /\ pc = "done"
  /\ Len(rows) = 2
  /\ Failed(outcomes[1])
  /\ outcomes[2].kind = "record"
  /\ DataCells(2)[3] = "Bearish"

\* C2: a call that was answered by a rate-limit error on every attempt ends
\* after exactly 5 attempts (5 requests, 5 backoff sleeps) with the sentinel
\* "rate limit retries exhausted"; no call ever starts a 6th attempt.
C2_RetryBound ==
  /\ attempt <= 5
  /\ (spc \in {"returned", "thrown"} /\ allRl) =>
       /\ attempt = 5
       /\ requests = 5
       /\ sleeps = 5
       /\ ret = Record("Error", 0, "rate limit retries exhausted", <<>>)

\* a call that ended after nothing but rate-limit errors
C2_Witness == spc = "returned" /\ allRl /\ requests = 5

\* C3: once a reply text has failed extraction and coercion, the call issues
\* no further request and starts no backoff sleep, and it returns a record
\* labelled Error instead of throwing.
C3_MalformedNotRetried ==
  last.kind = "malformed" =>
    /\ spc = "returned"
    /\ outstanding = 0
    /\ requests = last.req
    /\ sleeps = last.slp
    /\ ret.ty = "record"
    /\ ret.label = "Error"
    /\ outcomes[Len(outcomes)].kind = "sentinel"

\* a malformed reply that arrived after an earlier rate-limited attempt
C3_Witness ==
  /\ last.kind = "malformed"
  /\ spc = "returned"
  /\ attempt > 0
  /\ ret.summary = "Model did not return valid JSON sentiment"

\* an error that is not rate-limit-classified: status other than 429 and no
\* "rate_limit" in its type or message
NonRateLimit(e) ==
  /\ e.status # 429
  /\ ~Includes(e.etype, "rate_limit")
  /\ ~Includes(e.emsg, "rate_limit")
  /\ ~Includes(e.message, "rate_limit")

C4_Summary(s, e) ==
  IF s = "csv"
  THEN IF e.etype # "" THEN e.etype ELSE e.message
  ELSE (IF e.etype # "" THEN e.etype ELSE e.name) \o ": "
       \o (IF e.emsg # "" THEN e.emsg ELSE e.message)

\* the one case in which a request follows such an error: the directory
\* scorer's first request of an attempt fails in a way that looks like a
\* rejected response_format
C4_FallbackCase(s, r) ==
  /\ s = "dir"
  /\ ~r.fb
  /\ \/ Includes(IF r.err.etype # "" THEN r.err.etype ELSE r.err.name,
                 "invalid")
     \/ Includes(ToLowerCase(IF r.err.emsg # "" THEN r.err.emsg
                             ELSE r.err.message), "response_format")

C5_NeverRaises ==
  /\ spc # "thrown"
  /\ (spc = "returned" /\ last.kind # "record") =>
       /\ ret.label = "Error"
       /\ ret.score = 0
       /\ ret.tickers = <<>>
       /\ ret.summary # ""

\* the message of the exception behind outcome o
C6_Message(o) == IF o.kind = "readError" THEN ReadErrorMessage ELSE o.msg

\* C6 as stated: a row whose handling raised (scoreMarket threw, or the file
\* could not be read) is written like the oracle client's sentinel: label
\* Error, score 0, summary = the error message, tickers = {}.
C6_SentinelShape ==
  \A i \in 1..processed :
    outcomes[i].kind \in {"exception", "readError"} =>
      SubSeq(DataCells(i), 3, 6)
        = <<"Error", "0", C6_Message(outcomes[i]), "{}">>

\* the header line of the output file
C7_Header ==
  IF site = "csv"
  THEN "\"url\",\"title\",\"label\",\"score\",\"summary\",\"tickers\"\n"
  ELSE "\"path\",\"file\",\"label\",\"score\",\"summary\",\"tickers\"\n"

\* the file is the header followed by complete rows of the first `processed`
\* input rows, in input order
C7_Prefix ==
  /\ opens <= 1
  /\ (pc \in {"start", "input", "aborted", "open"}) =>
       (sinkState = "unopened" /\ opens = 0 /\ sink = <<>>)
  /\ pc = "header" => (opens = 1 /\ sink = <<>>)
  /\ (pc \in {"loop", "read", "score", "delay", "readErrDelay", "done"}) =>
       /\ opens = 1
       /\ Len(sink) = processed + 1
       /\ processed \in {idx - 1, idx}
       /\ processed <= Len(rows)
       /\ sink[1] = C7_Header
       /\ \A i \in 1..processed :
            /\ CompleteLine(sink[i + 1])
            /\ sink[i + 1] # C7_Header
            /\ Len(DataCells(i)) = 6
            /\ SubSeq(DataCells(i), 1, 2) = KeyCells(site, rows[i])

\* a step leaves every line already in the file in place and unchanged
C7_Step ==
  /\ Len(sink') >= Len(sink)
  /\ \A k \in 1..Len(sink) : sink'[k] = sink[k]

\* C7: the output file is opened once and the header is written first and
\* once; in every state it is the header followed by complete rows of
\* exactly the first k input rows in order (k = rows processed so far; it is
\* still empty between the open and the header write), and no step modifies
\* or removes a line already written.
C7_CrashSafePrefix == []C7_Prefix /\ [][C7_Step]_vars

\* a run of two rows interrupted after its first row: header plus one row
C7_Witness ==
  /\ pc = "delay"
  /\ Len(rows) = 2
  /\ processed = 1
  /\ Len(sink) = 2

C9_CallActive == spc \in {"top", "request", "fallback", "sleep"}

\* at most one request in flight, and only for the row whose predecessors
\* are all written and delayed
C9_OneAtATime ==
  /\ outstanding <= 1
  /\ (outstanding = 1) = (spc \in {"request", "fallback"})
  /\ C9_CallActive =>
       /\ pc = "score"
       /\ processed = idx - 1
       /\ Len(sink) = idx
       /\ \A j \in 1..(idx - 1) : delays[j] = 1

\* the file is written only by main, between calls
C9_Step == sink' # sink => (~C9_CallActive /\ outstanding = 0)

\* C9: rows are handled strictly one after the other: at most one request
\* is in flight, a request for row i+1 is issued only after row i's line is
\* written and its delay has elapsed, and the file is written by main only,
\* never while a call is in progress.
C9_Sequential == []C9_OneAtATime /\ [][C9_Step]_vars

\* the request for the second row is in flight
C9_Witness == outstanding = 1 /\ idx = 2 /\ delays[1] = 1

\* C10: the inter-request delay elapses exactly once per row, after its line
\* is written, whatever the row's outcome: never twice, and every row the
\* loop has left behind has had its one delay.
C10_DelayOncePerRow ==
  /\ \A j \in 1..Len(rows) : delays[j] <= 1
  /\ \A j \in 1..Len(rows) :
       (j < idx \/ pc = "done") => (delays[j] = 1 /\ j <= processed)
  /\ \A j \in 1..Len(rows) : j > processed => delays[j] = 0

\* a finished directory run with an unreadable file and a sentinel row
C10_Witness ==
  /\ site = "dir"
  /\ pc = "done"
  /\ Len(rows) = 2
  /\ outcomes[1].kind = "readError"
  /\ outcomes[2].kind = "sentinel"
  /\ delays = <<1, 1>>

\* the interval a retry-after header of the given text asks for, in ms
SuggestedMs(header) == (ToNumber(header).n * 1000) \div Unit

\* C11: the backoff sleep entered on a rate-limit error at 0-based attempt a
\* lasts retry-after x 1000 ms whenever the error carries a retry-after
\* header, a header of 0 included, and 2000 ms x (a+1) otherwise.
C11_SleepInterval ==
  spc = "sleep" =>
    sleepMs = IF last.err.retryAfter # ""
              THEN SuggestedMs(last.err.retryAfter)
              ELSE 2000 * (attempt + 1)

\* the next request of a call is issued only once the sleep is over
C11_RequestAfterSleep ==
  [][spc = "sleep" => (requests' = requests /\ outstanding' = outstanding)]_vars

\* a second backoff sleep, entered on a retry-after header of 0
C11_Witness ==
  /\ spc = "sleep"
  /\ attempt = 1
  /\ last.err.retryAfter = "0"
  /\ sleepMs = 4000

\* the sleeps the header and the default give when the header is not 0
C11_NonZeroHeader ==
  (spc = "sleep" /\ last.err.retryAfter # "0") =>
    sleepMs = IF last.err.retryAfter # ""
              THEN SuggestedMs(last.err.retryAfter)
              ELSE 2000 * (attempt + 1)

\* C12 (as stated): a call moves Building -> Requesting -> Parsing ->
\* (Success | Retrying | Failed); a reply is parsed only when a request
\* returned text; the backoff sleep is entered only on a rate-limit-classified
\* error and leads only back to a request; Success and Failed are terminal;
\* a call that succeeds returns the record coerced from the text of its last
\* request.
C12_ParsingStep ==
  (last'.kind \in {"record", "malformed"} /\ last' # last) =>
    /\ spc \in {"request", "fallback"}
    /\ outstanding = 1
    /\ outstanding' = 0

C12_RetryingEntry ==
  (spc' = "sleep" /\ spc # "sleep") =>
    /\ spc \in {"request", "fallback"}
    /\ last'.kind = "error"
    /\ ~NonRateLimit(last'.err)
    /\ sleeps' = sleeps + 1
    /\ requests' = requests

C12_TerminalStep ==
  spc \in {"returned", "thrown"} =>
    /\ outstanding = 0
    /\ sleepMs = 0
    /\ spc' \in {spc, "idle"}
    /\ outstanding' = 0

C12_SuccessRecord ==
  (spc = "returned" /\ last.kind = "record") =>
    /\ ret = ExtractRecord(last.text)
    /\ ret.ty = "record"
    /\ sleeps = attempt
    /\ requests = last.req

\* the steps of a call outside the sleep
C12_Edges ==
  /\ spc = "idle" => spc' \in {"idle", "top"}
  /\ (spc = "top" /\ attempt = 0) => spc' \in {"top", "request"}
  /\ spc = "request" =>
       spc' \in {"request", "fallback", "sleep", "returned", "thrown"}
  /\ spc = "fallback" => spc' \in {"fallback", "sleep", "returned"}

C12_RetryingToRequest ==
  /\ spc = "sleep" => spc' \in {"sleep", "top"}
  /\ (spc = "top" /\ attempt > 0) => spc' \in {"top", "request"}

C12_RetryingExit ==
  /\ spc = "sleep" => spc' \in {"sleep", "top"}
  /\ (spc = "top" /\ attempt > 0 /\ spc' # "top") =>
       IF attempt < MaxAttempts
       THEN spc' = "request" /\ requests' = requests + 1
       ELSE /\ spc' = "returned"
            /\ requests' = requests
            /\ ret' = Record("Error", 0, "rate limit retries exhausted", <<>>)

C13_MissingKeyAborts ==
  ~hasKey =>
    /\ pc \in {"start", "aborted"}
    /\ sinkState = "unopened"
    /\ opens = 0
    /\ sink = <<>>
    /\ processed = 0
    /\ spc = "idle"
    /\ requests = 0
    /\ outstanding = 0
    /\ outcomes = <<>>

\* a run without the key over two rows has been aborted
C13_Witness == ~hasKey /\ pc = "aborted" /\ Len(rows) = 2

\* no row is handed to scoreMarket twice, no row is handed over before its
\* turn, and a row the loop has left behind is never handed over again
C14_AtMostOnce ==
  \A j \in 1..Len(rows) : calls[j] <= 1 /\ (j > idx => calls[j] = 0)

C14_NoRescore ==
  \A j \in 1..Len(rows) : (j < idx \/ pc = "done") => calls'[j] = calls[j]

\* C14 (as stated): every row is handed to scoreMarket exactly one time:
\* never zero times, never a second time after a failure, and never again
\* once the loop has moved on.
C14_AsStated ==
  /\ [](C14_AtMostOnce
        /\ \A j \in 1..Len(rows) : (j < idx \/ pc = "done") => calls[j] = 1)
  /\ [][C14_NoRescore]_vars

\* C14 (amended): as stated for every row whose text was read; a file of
\* the directory run that cannot be read is never handed to scoreMarket.
C14_Amended ==
  /\ [](C14_AtMostOnce
        /\ \A j \in 1..Len(rows) :
             (j < idx \/ pc = "done") =>
               calls[j] = IF outcomes[j].kind = "readError" THEN 0 ELSE 1)
  /\ [][C14_NoRescore]_vars

\* a finished run of two rows: the first call failed and was not repeated,
\* the second row was scored once
C14_Witness ==
  /\ pc = "done"
  /\ Len(rows) = 2
  /\ outcomes[1].kind \in {"sentinel", "exception"}
  /\ outcomes[2].kind = "record"
  /\ calls = <<1, 1>>

(***************************************************************************)
(* The schema coercer on its own: one call of parseScore,                  *)
(* normalizeTickerKey or coerceSentimentShape on an argument drawn from    *)
(* the sets below.                                                         *)
(***************************************************************************)
\* scores are drawn from the hundredths -ScoreGrid/100 .. ScoreGrid/100
ScoreGrid == 100

GridScores == {Num(k * (Unit \div 100)) : k \in (0 - ScoreGrid)..ScoreGrid}

BareScores ==
  {Num(80 * Unit), Num(0 - 50 * Unit), Num(100 * Unit), Num(101 * Unit),
   Num(0 - 101 * Unit), Num(15000)}

ScoreStrings ==
  {"80", "-50", "0.3", "100", "101", "-100", "-101", "1", "-1", "1.5",
   "0.2", "-0.2", "-0.6", "0.59", " 42 ", "", "n/a", "12abc",
   "75%", "250%", "-300%", "100%", "-20%", "0%", " 60% ", "%", "abc%",
   "7x%"}

ScoreInputs ==
  GridScores \cup BareScores \cup {Str(x) : x \in ScoreStrings}
  \cup {Null, Undef}

LabelInputs ==
  {Undef, Str(""), Str("Bullish"), Str("very_bearish"), Str("unsure"),
   Str("constructor")}

KeyInputs == {"aapl", " msft ", "aapl1234567", "BRK-B", "goog1", ""}

TickerValues ==
  {Num(5000), Str("75"), Str("n/a"), Null,
   TickerObj(Num(0 - 2000), Str("why")), TickerObj(Undef, Str("x")),
   TickerObj(Str("n/a"), Undef)}

MappingEntries == {[k |-> k, v |-> v] : k \in KeyInputs, v \in TickerValues}

ArrayEntries ==
  {TickerEntry(Str(k), Undef, Undef, v, Str("e")) :
     k \in KeyInputs, v \in {Num(5000), Str("n/a"), Undef}}
  \cup {TickerEntry(Undef, Str("tsla"), Undef, Num(5000), Undef),
        TickerEntry(Undef, Undef, Str("no-go"), Str("10%"), Undef),
        TickerEntry(Str(""), Undef, Str("nvda"), Str("-40"), Undef),
        TickerEntry(Num(7 * Unit), Undef, Undef, Num(5000), Undef),
        Null}

\* tickers of one or two entries; the keys of a mapping are distinct
TickerInputs ==
  {Undef, Null, Mapping(<<>>), Arr(<<>>)}
  \cup {Mapping(<<e>>) : e \in MappingEntries}
  \cup UNION {{Mapping(<<e, f>>) :
                 f \in {g \in MappingEntries :
                          g.k \in {"aapl", " msft "} /\ g.k # e.k}} :
               e \in MappingEntries}
  \cup {Arr(<<e>>) : e \in ArrayEntries}
  \cup {Arr(<<e, f>>) :
          e \in ArrayEntries,
          f \in {TickerEntry(Str("aapl"), Undef, Undef, Num(0 - 2000),
                             Str("f"))}}

CoerceInputs ==
  {Obj(l, x, Undef, Str("r"), Undef, Undef) :
     l \in LabelInputs, x \in ScoreInputs}
  \cup {Obj(l, x, Str("s"), Undef, Undef, t) :
          l \in {Str("Bullish")}, x \in {Num(4500), Str("n/a")},
          t \in TickerInputs}
  \cup {Obj(Str("Bullish"), Num(4500), m, r, e, Undef) :
          m \in {Undef, Null, Str(""), Str("s")},
          r \in {Undef, Str(""), Str("r")},
          e \in {Undef, Str(""), Str("e")}}
  \cup {Null, Str("Bullish"), Num(4500)}

(***************************************************************************)
(* buildMarketPrompt; budget stands for MAX_TEXT_CHARS.                    *)
(***************************************************************************)
\* s.slice(0, end)
Slice(s, end) ==
  WithValue(s, LAMBDA v :
    IF end >= Len(v) THEN v
    ELSE IF end >= 0 THEN SubSeq(v, 1, end)
    ELSE IF Len(v) + end > 0 THEN SubSeq(v, 1, Len(v) + end)
    ELSE "")

\* a faulty clipping, for comparison: cut first, trim afterwards
ClipLate(text, budget) == Trim(Slice(text, budget))

\* String(text || '').trim().slice(0, MAX_TEXT_CHARS)
Clip(text, budget) == Slice(Trim(text), budget)

Instructions ==
  "Rate the overall stock market mood expressed by the following text. "
  \o "Also extract any specific stock tickers mentioned and, for each, "
  \o "assign a score (-1..1) and a short explanation. Return STRICT JSON "
  \o "ONLY with keys: label (VeryBearish|Bearish|Neutral|Bullish|"
  \o "VeryBullish), score (-1..1), summary (1-2 sentences), tickers "
  \o "(object mapping TICKER-> { score, explanation }). Use double quotes "
  \o "for all keys and strings. If no tickers, return an empty object for "
  \o "tickers. Return exactly one JSON object and nothing else."
  \o "\n\nTEXT:\n"

buildMarketPrompt(text, budget) == Instructions \o Clip(text, budget)

\* budgets are drawn from 0..MaxBudget
MaxBudget == 4

PromptTexts == {"", "abc", "  abc  ", " a b ", "abcdef", "\n xy\t", "   "}

PromptInputs ==
  {[ty |-> "call", text |-> t, budget |-> b] :
     t \in PromptTexts, b \in 0..MaxBudget}

(***************************************************************************)
(* Records whose row is written and read back.                             *)
(***************************************************************************)
WrittenScores ==
  {Num(5000), Num(0 - 2000), Num(0), Num(Unit), Str("75"), Str("-12.5%"),
   Str("Infinity"), Num(0 - Infinity)}

WrittenExplanations ==
  {Str("x"), Str(""), Str("say \"hi\", ok"), Str("a\\b\nc, \"\"")}

WrittenTickers ==
  {Mapping(<<>>)}
  \cup {Mapping(<<[k |-> "aapl", v |-> TickerObj(x, e)]>>) :
          x \in WrittenScores, e \in WrittenExplanations}
  \cup {Mapping(<<[k |-> "brk", v |-> x],
                  [k |-> "msft", v |-> TickerObj(y, e)]>>) :
          x \in {Num(2500), Str("Infinity")},
          y \in {Num(0 - 7500)}, e \in WrittenExplanations}

\* the records coerceSentimentShape returns for them
WrittenRecords ==
  {coerceSentimentShape(Obj(Str("Bullish"), Num(4500), Str(m), Undef,
                            Undef, t)) :
     m \in {"s", "up, \"way\" up"}, t \in WrittenTickers}

WrittenRows ==
  {[url |-> "http://x/a,b", title |-> "T \"q\"", text |-> "t"]}

RoundTripInputs ==
  {[ty |-> "row", row |-> w, record |-> r] :
     w \in WrittenRows, r \in WrittenRecords}

\* labels as the model may spell them
SpelledLabels ==
  {Str("Negative"), Str("down beat"), Str("MIXED"), Str("balanced"),
   Str("Upbeat"), Str("positive"), Str("Very Positive"),
   Str("very_negative"), Str(" Very_Bullish "), Str("bearish"),
   Str("Neutral"), Str("unsure"), Str("Error"), Str("constructor"),
   Str(""), Null, Undef, Num(0), Num(Unit)}

FnInit ==
  /\ site = "csv"
  /\ hasKey = FALSE
  /\ inputOk = TRUE
  /\ rows = <<>>
  /\ hasBtn = FALSE
  /\ Idle
  /\ \/ fn = "parseScore" /\ arg \in ScoreInputs
     \/ fn = "normalizeTickerKey"
        /\ arg \in {Str(k) : k \in KeyInputs} \cup {Null, Num(7 * Unit)}
     \/ fn = "coerceSentimentShape" /\ arg \in CoerceInputs
     \/ fn = "normalizeLabel" /\ arg \in SpelledLabels
     \/ fn = "extract" /\ arg \in {Str(t) : t \in ExtractInputs}
     \/ fn = "buildMarketPrompt" /\ arg \in PromptInputs
     \/ fn = "roundTrip" /\ arg \in RoundTripInputs
  /\ res = Pending

study == <<site, hasKey, inputOk, rows, pc, idx, file, call, outcomes,
           delays, calls, fn, arg, page>>

ApplyParseScore ==
  /\ fn = "parseScore"
  /\ res = Pending
  /\ res' = parseScore(arg)
  /\ UNCHANGED study

ApplyNormalizeTickerKey ==
  /\ fn = "normalizeTickerKey"
  /\ res = Pending
  /\ res' = Str(normalizeTickerKey(arg))
  /\ UNCHANGED study

ApplyCoerce ==
  /\ fn = "coerceSentimentShape"
  /\ res = Pending
  /\ res' = coerceSentimentShape(arg)
  /\ UNCHANGED study

ApplyNormalizeLabel ==
  /\ fn = "normalizeLabel"
  /\ res = Pending
  /\ res' = Str(normalizeLabel(arg))
  /\ UNCHANGED study

\* scoreMarket's try block on the text of a reply
ApplyExtract ==
  /\ fn = "extract"
  /\ res = Pending
  /\ res' = ExtractRecord(arg.s)
  /\ UNCHANGED study

\* the prompt is built for the same text and budget a first and a second
\* time
ApplyBuildPrompt ==
  /\ fn = "buildMarketPrompt"
  /\ \/ /\ res = Pending
        /\ res' = [ty |-> "prompts",
                   made |-> <<buildMarketPrompt(arg.text, arg.budget)>>]
     \/ /\ res # Pending
        /\ Len(res.made) = 1
        /\ res' = [res EXCEPT !.made =
                     Append(@, buildMarketPrompt(arg.text, arg.budget))]
  /\ UNCHANGED study

\* the row of a record is written as main writes it, the line is read by
\* parseLine, and the tickers cell is given to JSON.parse
ApplyRoundTrip ==
  /\ fn = "roundTrip"
  /\ res = Pending
  /\ res' =
       WithValue(ResultLine("csv", arg.row, arg.record), LAMBDA line :
         WithValue(parseLine(SubSeq(line, 1, Len(line) - 1)), LAMBDA read :
           [ty |-> "cells",
            line |-> line,
            read |-> read,
            parsed |-> JsonParseTickers(read[Len(read)])]))
  /\ UNCHANGED study

FnNext ==
  \/ ApplyRoundTrip
  \/ ApplyBuildPrompt
  \/ ApplyExtract
  \/ ApplyParseScore
  \/ ApplyNormalizeTickerKey
  \/ ApplyCoerce
  \/ ApplyNormalizeLabel

FnSpec == FnInit /\ [][FnNext]_vars

Buckets == {"VeryBearish", "Bearish", "Neutral", "Bullish", "VeryBullish"}

Coerced == fn = "coerceSentimentShape" /\ res # Pending

\* C15 (as stated): coerceSentimentShape returns null unless a label and a
\* numeric score are resolved: every record it returns has a label among
\* the five buckets and a score that parseScore resolved to a number, and
\* an object whose score is not numeric yields null whatever its label.
C15_Gate ==
  (Coerced /\ arg.ty = "object") =>
    /\ res.ty \in {"null", "record"}
    /\ res.ty = "record" =>
         /\ res.label \in Buckets
         /\ parseScore(arg.score) = Num(res.score)
    /\ parseScore(arg.score).ty # "number" => res = Null

\* the label "constructor" with a numeric score has been coerced
C15_Witness ==
  /\ Coerced
  /\ arg.ty = "object"
  /\ arg.label = Str("constructor")
  /\ arg.score = Num(5000)
  /\ res.ty = "record"

\* the gate for every label that is not the name of an inherited property
C15_GateOwnLabels ==
  (Coerced /\ arg.ty = "object" /\ arg.label # Str("constructor")) =>
    /\ res.ty \in {"null", "record"}
    /\ res.ty = "record" =>
         /\ res.label \in Buckets
         /\ parseScore(arg.score) = Num(res.score)
    /\ parseScore(arg.score).ty # "number" => res = Null

\* the bucket the thresholds assign to a score: <= -0.6, (-0.6, -0.2],
\* (-0.2, 0.2], (0.2, 0.6), >= 0.6
ThresholdLabel(x) ==
  IF x * 10 <= 0 - 6 * Unit THEN "VeryBearish"
  ELSE IF x * 10 <= 0 - 2 * Unit THEN "Bearish"
  ELSE IF x * 10 <= 2 * Unit THEN "Neutral"
  ELSE IF x * 10 < 6 * Unit THEN "Bullish"
  ELSE "VeryBullish"

Inferred ==
  /\ Coerced
  /\ arg.ty = "object"
  /\ res.ty = "record"
  /\ normalizeLabel(arg.label) = ""

\* C16 (as stated): when the label cannot be normalized, the record's label
\* is the bucket of its score: <= -0.6 VeryBearish, (-0.6, -0.2] Bearish,
\* (-0.2, 0.2] Neutral, (0.2, 0.6) Bullish, >= 0.6 VeryBullish.
C16_InferredLabel == Inferred => res.label = ThresholdLabel(res.score)

\* a score of exactly -0.2 without a usable label has been coerced
C16_Witness ==
  /\ Inferred
  /\ arg.label = Str("unsure")
  /\ arg.score = Num(0 - 2000)
  /\ res.label = "Neutral"

\* the thresholds at every score other than -0.2
C16_InferredElsewhere ==
  (Inferred /\ res.score # 0 - 2000) => res.label = ThresholdLabel(res.score)

Scored == fn = "parseScore" /\ res # Pending

\* a bare score: a number, or a string without "%" that reads as a number
BareNumber(v) ==
  \/ v.ty = "number"
  \/ /\ v.ty = "string"
     /\ Trim(v.s) # ""
     /\ ~EndsWith(Trim(v.s), "%")
     /\ ToNumber(v.s).ty = "number"

ValueOf(v) == IF v.ty = "number" THEN v.n ELSE ToNumber(v.s).n

\* magnitude in (1, 100]: divided by 100; anything else unchanged
Rescaled(x) ==
  IF (x > Unit /\ x <= 100 * Unit) \/ (x < 0 - Unit /\ x >= 0 - 100 * Unit)
  THEN Div100(x) ELSE x

\* C17 (as stated): a bare score with magnitude in (1, 100] is divided by
\* 100, one in [-1, 1] is returned unchanged, any other passes through, and
\* the result is the same for a JSON number and for a numeric string.
C17_BareRescaled ==
  (Scored /\ BareNumber(arg)) => res = Num(Rescaled(ValueOf(arg)))

\* the JSON number 80 has been scored
C17_Witness == Scored /\ arg = Num(80 * Unit) /\ res = Num(80 * Unit)

\* the rescaling of numeric strings, and of numbers within [-1, 1]
C17_StringsRescaled ==
  (Scored /\ BareNumber(arg)
   /\ (arg.ty = "string" \/ Rescaled(arg.n) = arg.n)) =>
    res = Num(Rescaled(ValueOf(arg)))

\* a score string that ends in "%", and what stands before the "%"
PercentString(v) == v.ty = "string" /\ EndsWith(Trim(v.s), "%")

PercentPrefix(v) == SubSeq(Trim(v.s), 1, Len(Trim(v.s)) - 1)

\* the prefix is a decimal number: it has digits
NumericPrefix(v) ==
  Trim(PercentPrefix(v)) # "" /\ ToNumber(PercentPrefix(v)).ty = "number"

\* C18 (as stated): a score string "p%" with numeric p yields
\* max(-1, min(1, p/100)), and a string ending in "%" whose prefix is not
\* numeric yields no score.
C18_Percent ==
  (Scored /\ PercentString(arg)) =>
    res = IF NumericPrefix(arg)
          THEN Num(Clamp1(Div100(ToNumber(PercentPrefix(arg)).n)))
          ELSE Undef

\* the string "%" has been scored
C18_Witness == Scored /\ arg = Str("%") /\ res = Num(0)

\* percent strings whose prefix is not blank
C18_PercentNonBlank ==
  (Scored /\ PercentString(arg) /\ Trim(PercentPrefix(arg)) # "") =>
    res = IF NumericPrefix(arg)
          THEN Num(Clamp1(Div100(ToNumber(PercentPrefix(arg)).n)))
          ELSE Undef

\* "250%" has been clamped to 1
C18_ClampReached == Scored /\ arg = Str("250%") /\ res = Num(Unit)

\* 1 to 6 characters, each an upper-case letter or a digit
SymbolChars ==
  {Ch("ABCDEFGHIJKLMNOPQRSTUVWXYZ0123456789", i) : i \in 1..36}

WellFormedKey(k) ==
  Len(k) >= 1 /\ Len(k) <= 6 /\ \A p \in 1..Len(k) : Ch(k, p) \in SymbolChars

\* the raw keys of the tickers of the argument, mapping or array form
RawKeys(t) ==
  IF t.ty = "object" THEN {t.ent[p].k : p \in 1..Len(t.ent)}
  ELSE IF t.ty = "array"
  THEN {StringOf(IF Truthy(t.ent[p].ticker) THEN t.ent[p].ticker
                 ELSE IF Truthy(t.ent[p].symbol) THEN t.ent[p].symbol
                 ELSE t.ent[p].code) :
          p \in {q \in 1..Len(t.ent) : t.ent[q].ty = "object"}}
  ELSE {}

OutKeys == {res.tickers[p].k : p \in 1..Len(res.tickers)}

\* C19: every key of the tickers of a coerced record is 1 to 6 upper-case
\* letters or digits and is the trimmed, upper-cased form of a key of the
\* input, no key occurs twice, "aapl" is kept as "AAPL", and keys that are
\* too long or hold a hyphen are dropped, in the mapping form and in the
\* array form.
C19_TickerKeys ==
  /\ (Coerced /\ res.ty = "record") =>
       /\ \A k \in OutKeys :
            /\ WellFormedKey(k)
            /\ \E raw \in RawKeys(arg.tickers) :
                 ToLowerCase(k) = ToLowerCase(Trim(raw))
       /\ Cardinality(OutKeys) = Len(res.tickers)
       /\ \A raw \in RawKeys(arg.tickers) :
            (Len(Trim(raw)) > 6 \/ Includes(raw, "-")) =>
              \A k \in OutKeys : ToLowerCase(k) # ToLowerCase(Trim(raw))
       /\ (arg.tickers.ty \in {"object", "array"}
           /\ Len(arg.tickers.ent) = 1
           /\ RawKeys(arg.tickers) = {"aapl"}
           /\ (IF arg.tickers.ty = "object" THEN arg.tickers.ent[1].v
               ELSE arg.tickers.ent[1].score) = Num(5000)) =>
            OutKeys = {"AAPL"}
  /\ (fn = "normalizeTickerKey" /\ res # Pending) =>
       /\ res.s = "" \/ WellFormedKey(res.s)
       /\ arg = Str("aapl") => res = Str("AAPL")
       /\ arg \in {Str("aapl1234567"), Str("BRK-B"), Null} => res = Str("")

\* a mapping with a hyphenated key and "aapl" has been coerced
C19_Witness ==
  /\ Coerced
  /\ arg.ty = "object"
  /\ arg.tickers = Mapping(<<[k |-> "BRK-B", v |-> Num(5000)],
                             [k |-> "aapl", v |-> Num(5000)]>>)
  /\ res.ty = "record"
  /\ OutKeys = {"AAPL"}

\* an array with a key that is too long and "aapl" has been coerced
C19_ArrayReached ==
  /\ Coerced
  /\ arg.ty = "object"
  /\ arg.tickers.ty = "array"
  /\ RawKeys(arg.tickers) = {"aapl1234567", "aapl"}
  /\ res.ty = "record"
  /\ OutKeys = {"AAPL"}

\* the entries of the tickers of the argument as pairs of raw key and raw
\* score: the value or its score field (mapping), the score field (array)
RawEntries(t) ==
  IF t.ty = "object"
  THEN {[key |-> Str(t.ent[p].k),
         score |-> IF t.ent[p].v.ty \in {"number", "string"} THEN t.ent[p].v
                   ELSE IF t.ent[p].v.ty = "object" THEN t.ent[p].v.score
                   ELSE Undef] : p \in 1..Len(t.ent)}
  ELSE IF t.ty = "array"
  THEN {[key |-> IF Truthy(t.ent[p].ticker) THEN t.ent[p].ticker
                 ELSE IF Truthy(t.ent[p].symbol) THEN t.ent[p].symbol
                 ELSE t.ent[p].code,
         score |-> t.ent[p].score] :
          p \in {q \in 1..Len(t.ent) : t.ent[q].ty = "object"}}
  ELSE {}

\* the output entry stands for an input entry with a score that parseScore
\* resolved to a number
HadScore(out, t) ==
  \E e \in RawEntries(t) :
    /\ normalizeTickerKey(e.key) = out.k
    /\ parseScore(e.score) = Num(out.score)

\* dropping entries does not decide whether a record is returned
TickersNeverReject ==
  (Coerced /\ arg.ty = "object") =>
    (res.ty = "record") =
      (coerceSentimentShape([arg EXCEPT !.tickers = Undef]).ty = "record")

\* C20 (as stated): every entry of a coerced record's tickers had a score
\* in the input that parseScore resolved to a number: entries whose value
\* is null, a non-numeric string or an object without a numeric score are
\* dropped, and dropping an entry never rejects the record.
C20_ScoredEntriesOnly ==
  /\ (Coerced /\ res.ty = "record") =>
       \A p \in 1..Len(res.tickers) : HadScore(res.tickers[p], arg.tickers)
  /\ TickersNeverReject

\* a mapping whose only entry has the value null has been coerced
C20_Witness ==
  /\ Coerced
  /\ arg.ty = "object"
  /\ arg.tickers = Mapping(<<[k |-> "aapl", v |-> Null]>>)
  /\ res.ty = "record"
  /\ res.tickers = <<[k |-> "AAPL", score |-> 0, explanation |-> ""]>>

\* the same for inputs without a null value in a mapping
C20_NoNullValues ==
  /\ (/\ Coerced
      /\ res.ty = "record"
      /\ arg.tickers.ty = "object" =>
            \A q \in 1..Len(arg.tickers.ent) : arg.tickers.ent[q].v # Null) =>
       \A p \in 1..Len(res.tickers) : HadScore(res.tickers[p], arg.tickers)
  /\ TickersNeverReject

\* the synonym table of the label step
Synonyms ==
  ("negative" :> "Bearish") @@ ("downbeat" :> "Bearish")
  @@ ("mixed" :> "Neutral") @@ ("balanced" :> "Neutral")
  @@ ("upbeat" :> "Bullish") @@ ("positive" :> "Bullish")
  @@ ("verypositive" :> "VeryBullish") @@ ("verynegative" :> "VeryBearish")
  @@ ("slightlybullish" :> "Bullish") @@ ("somewhatbullish" :> "Bullish")
  @@ [b \in {ToLowerCase(x) : x \in Buckets} |->
        CHOOSE x \in Buckets : ToLowerCase(x) = b]

\* the label lower-cased, without whitespace and underscores
LookupKey(v) == MapStr(StripWsUnderscore, ToLowerCase(StringOf(v)))

Normalized == fn = "normalizeLabel" /\ res # Pending

\* C21 (as stated): normalizeLabel looks the lower-cased label without
\* whitespace and underscores up in the synonym table and yields no label
\* for a string that is not in the table; a label that normalizes is the
\* record's label whatever bucket the score would infer.
C21_LabelLookup ==
  /\ Normalized =>
       res = Str(IF Truthy(arg) /\ LookupKey(arg) \in DOMAIN Synonyms
                 THEN Synonyms[LookupKey(arg)] ELSE "")
  /\ (Coerced /\ arg.ty = "object" /\ res.ty = "record"
      /\ Truthy(arg.label) /\ LookupKey(arg.label) \in DOMAIN Synonyms) =>
       res.label = Synonyms[LookupKey(arg.label)]

\* the label "constructor" has been normalized
C21_Witness ==
  Normalized /\ arg = Str("constructor") /\ res = Str(InheritedLabel)

\* the lookup for every label other than "constructor"
C21_OwnLabels ==
  /\ (Normalized /\ arg # Str("constructor")) =>
       res = Str(IF Truthy(arg) /\ LookupKey(arg) \in DOMAIN Synonyms
                 THEN Synonyms[LookupKey(arg)] ELSE "")
  /\ (Coerced /\ arg.ty = "object" /\ res.ty = "record"
      /\ Truthy(arg.label) /\ LookupKey(arg.label) \in DOMAIN Synonyms) =>
       res.label = Synonyms[LookupKey(arg.label)]

\* "Very Positive" normalized; the label Bullish kept beside a score of -0.9
C21_SynonymReached ==
  \/ Normalized /\ arg = Str("Very Positive") /\ res = Str("VeryBullish")
  \/ /\ Coerced /\ arg.ty = "object" /\ arg.label = Str("Bullish")
     /\ arg.score = Num(0 - 9000) /\ res.ty = "record"
     /\ res.label = "Bullish"

Extraction == fn = "extract" /\ res # Pending

\* the reply is a valid JSON object as it stands
ValidJson(t) == safeParseJson(t).ty = "object"

\* C22 (as stated): for a reply that is a valid JSON object as it stands,
\* extraction yields what parsing the reply directly yields, string values
\* unchanged, also when they hold typographic quotes, apostrophes or a
\* comma before a closing bracket.
C22_Idempotent ==
  (Extraction /\ ValidJson(arg.s)) =>
    res = coerceSentimentShape(safeParseJson(arg.s))

\* a valid reply with typographic double quotes in its summary is lost
C22_Witness == Extraction /\ arg = Str(TextCurly) /\ res = Null

\* a typographic character of the reply
Typographic(t) ==
  \E p \in 1..Len(t) : Ch(t, p) \in {LDQUO, RDQUO, LSQUO, RSQUO}

\* the same for replies without typographic quotes
C22_IdempotentAscii ==
  (Extraction /\ ValidJson(arg.s) /\ ~Typographic(arg.s)) =>
    res = coerceSentimentShape(safeParseJson(arg.s))

\* a valid reply with a typographic apostrophe comes out altered
C22_AposReached ==
  /\ Extraction
  /\ arg = Str(TextCurlyApos)
  /\ res.ty = "record"
  /\ res.summary = "it's"

\* the ladder in its stated order, each stage tried only when the one
\* before it failed: the cleaned text, the brace substring as it is, the
\* repaired brace substring
Ladder(raw) ==
  LET cleaned == cleanJsonString(raw)
      direct == coerceSentimentShape(safeParseJson(cleaned))
      sub == BraceMatch(cleaned)
      asIs == coerceSentimentShape(safeParseJson(sub))
  IN IF direct.ty = "record" THEN direct
     ELSE IF asIs.ty = "record" THEN asIs
     ELSE coerceSentimentShape(safeParseJson(tryRepairs(sub)))

\* C23 (as stated): after a failed direct parse the substring from the
\* first "{" to the last "}" is parsed as it is, the repairs are applied
\* only if that fails, and the extractor yields null if every stage fails.
C23_LadderOrder == Extraction => res = Ladder(arg.s)

\* valid JSON after a sentence of prose comes out repaired
C23_Witness ==
  /\ Extraction
  /\ arg = Str(TextProseThenJson)
  /\ res.ty = "record"
  /\ res.summary = "a]"

\* the single-quote conversion happens only on a string without a double
\* quote and with a single quote, and a reply no stage can read yields null
C23_SingleQuoteGuard ==
  /\ Extraction =>
       LET sub == BraceMatch(cleanJsonString(arg.s))
       IN tryRepairs(sub) # DropTrailingCommas(sub) =>
            (~Includes(sub, "\"") /\ Includes(sub, "'"))
  /\ (Extraction /\ arg.s \in {TextProse, TextGarbage, ""}) => res = Null

\* the single-quoted reply has been read
C23_SingleQuoteReached ==
  /\ Extraction
  /\ arg = Str(TextSingle)
  /\ res.ty = "record"
  /\ tryRepairs(BraceMatch(arg.s)) = TextSingleRepaired

\* the fenced replies with a trailing comma, and the object each denotes
Denoted ==
  (TextFenced :> JsonTable[TextFencedRepaired])
  @@ (TextFencedArray :> JsonTable[TextFencedArrayRepaired])
  @@ (TextFencedCurly :> Obj(Str("bearish"), Str("-60%"), Undef, Str("^r~"),
                             Undef, Undef))

\* C24 (as stated): a JSON object wrapped in a json code fence, with a
\* trailing comma before a closing "}" or "]", is recovered to the object
\* it denotes: extraction yields that object's record, not a failure.
C24_FencedRecovered ==
  (Extraction /\ arg.s \in DOMAIN Denoted) =>
    /\ res.ty = "record"
    /\ res = coerceSentimentShape(Denoted[arg.s])

\* a fenced reply with a trailing comma and typographic quotes is lost
C24_Witness == Extraction /\ arg = Str(TextFencedCurly) /\ res = Null

\* the same for fenced replies without typographic quotes
C24_FencedAscii ==
  (Extraction /\ arg.s \in DOMAIN Denoted /\ ~Typographic(arg.s)) =>
    /\ res.ty = "record"
    /\ res = coerceSentimentShape(Denoted[arg.s])

\* the fenced reply with a comma before "]" and before "}" is recovered
C24_ArrayReached ==
  /\ Extraction
  /\ arg = Str(TextFencedArray)
  /\ res = Record("Bearish", 0 - 6000, "",
                  <<[k |-> "AAPL", score |-> 5000, explanation |-> ""]>>)

(***************************************************************************)
(* The dashboard script: the page's event handlers and the continuations   *)
(* of loadStocks.  A handler runs to its end or to its first await         *)
(* without interleaving; the continuation after an await runs when the     *)
(* awaited promise settles.                                                *)
(***************************************************************************)
\* events handled in a run
MaxEvents == 5

DashInit ==
  /\ site = "csv"
  /\ hasKey = FALSE
  /\ inputOk = TRUE
  /\ rows = <<>>
  /\ fn = "none"
  /\ arg = Null
  /\ res = Null
  /\ hasBtn \in BOOLEAN
  /\ Idle

batch == <<site, hasKey, inputOk, rows, pc, idx, file, call, outcomes,
           delays, calls, fn, arg, res>>

\* a faulty loadStocks, for comparison: no guard
LoadUnguarded ==
  /\ isLoading' = TRUE
  /\ btnDisabled' = hasBtn
  /\ loading' = loading + 1
  /\ fetching' = fetching + 1
  /\ UNCHANGED refused

\* loadStocks up to its await: the guard, isLoading = true, the button,
\* and fetchStocks up to its await of fetch(...)
loadStocks ==
  IF isLoading
  THEN /\ refused' = refused + 1
       /\ UNCHANGED <<isLoading, btnDisabled, loading, fetching>>
  ELSE /\ isLoading' = TRUE
       /\ btnDisabled' = hasBtn
       /\ loading' = loading + 1
       /\ fetching' = fetching + 1
       /\ UNCHANGED refused

\* DOMContentLoaded: the button, if there is one, gets its listener
DomContentLoaded ==
  /\ ~clickBound
  /\ hasBtn
  /\ clickBound' = TRUE
  /\ UNCHANGED <<batch, hasBtn, isLoading, stocksData, btnDisabled, visible,
                 loading, fetching, reading, refused, events>>

\* a click reaches the listener; the guard of loadStocks does not rely on
\* the button being disabled, and neither does the model
ClickRefresh ==
  /\ clickBound
  /\ events < MaxEvents
  /\ events' = events + 1
  /\ loadStocks
  /\ UNCHANGED <<batch, hasBtn, clickBound, stocksData, visible, reading>>

\* handleScroll, below the threshold (down = FALSE) or beyond it; the
\* length of an undefined stocksData raises a TypeError that ends the
\* handler after showDashboard
Scroll(down) ==
  /\ events < MaxEvents
  /\ events' = events + 1
  /\ visible' = down
  /\ IF down /\ stocksData = "empty"
     THEN loadStocks
     ELSE UNCHANGED <<isLoading, btnDisabled, loading, fetching, refused>>
  /\ UNCHANGED <<batch, hasBtn, clickBound, stocksData, reading>>

\* fetch(...) resolves: fetchStocks goes on to await response.json()
FetchResponds ==
  /\ fetching > 0
  /\ fetching' = fetching - 1
  /\ reading' = reading + 1
  /\ UNCHANGED <<batch, hasBtn, clickBound, isLoading, stocksData,
                 btnDisabled, visible, loading, refused, events>>

\* what fetchStocks returns for the body of a response: the rows, [] for
\* no rows, for success false and for a body without the property success
\* (the TypeError is caught), undefined for success without data
Bodies == {"rows", "noRows", "refusal", "null", "noData"}

Returned(body) ==
  CASE body = "rows" -> "rows"
    [] body = "noData" -> "undefined"
    [] OTHER -> "empty"

\* the rest of loadStocks once fetchStocks has returned: the assignment,
\* renderStocks or the TypeError of undefined.length, caught, and the
\* finally block
Finish(data) ==
  /\ stocksData' = data
  /\ isLoading' = FALSE
  /\ btnDisabled' = FALSE
  /\ loading' = loading - 1
  /\ UNCHANGED <<batch, hasBtn, clickBound, visible, refused, events>>

\* fetch(...) rejects: fetchStocks catches and returns []
FetchFails ==
  /\ fetching > 0
  /\ fetching' = fetching - 1
  /\ Finish("empty")
  /\ UNCHANGED reading

\* response.json() resolves with a body
JsonArrives(body) ==
  /\ reading > 0
  /\ reading' = reading - 1
  /\ Finish(Returned(body))
  /\ UNCHANGED fetching

\* response.json() rejects: fetchStocks catches and returns []
JsonFails ==
  /\ reading > 0
  /\ reading' = reading - 1
  /\ Finish("empty")
  /\ UNCHANGED fetching

DashNext ==
  \/ DomContentLoaded
  \/ ClickRefresh
  \/ \E down \in BOOLEAN : Scroll(down)
  \/ FetchResponds
  \/ FetchFails
  \/ \E body \in Bodies : JsonArrives(body)
  \/ JsonFails

DashSpec == DashInit /\ [][DashNext]_vars

Prompted == fn = "buildMarketPrompt" /\ res # Pending

\* what a prompt holds after the instruction block
Embedded(prompt) == SubSeq(prompt, Len(Instructions) + 1, Len(prompt))

\* C25: every prompt built for a text and a budget is the instruction block
\* followed by exactly the first min(budget, length) characters of the
\* trimmed text, never more than the budget, and a second call with the
\* same text and budget yields the same prompt.
C25_PromptDeterministic ==
  Prompted =>
    /\ \A i \in 1..Len(res.made) :
         LET trimmed == Trim(arg.text)
             n == IF arg.budget < Len(trimmed) THEN arg.budget
                  ELSE Len(trimmed)
         IN /\ StartsWith(res.made[i], Instructions)
            /\ Embedded(res.made[i]) = SubSeq(trimmed, 1, n)
            /\ Len(Embedded(res.made[i])) <= arg.budget
    /\ Len(res.made) = 2 => res.made[1] = res.made[2]

\* a text with blanks around it has been clipped twice to 2 characters
C25_Witness ==
  /\ Prompted
  /\ arg.text = "  abc  "
  /\ arg.budget = 2
  /\ Len(res.made) = 2
  /\ Embedded(res.made[2]) = "ab"

RoundTripped == fn = "roundTrip" /\ res # Pending

\* a tickers mapping as JSON.parse returns it: the score is a JSON value
AsParsed(tickers) ==
  [p \in 1..Len(tickers) |->
     [k |-> tickers[p].k, score |-> Num(tickers[p].score),
      explanation |-> tickers[p].explanation]]

FiniteScores(tickers) ==
  \A p \in 1..Len(tickers) : IsFiniteNum(tickers[p].score)

\* C26: for every record, the written row is read back by parseLine into
\* the six cells that were written, and JSON.parse of the tickers cell
\* yields the record's tickers mapping.
C26_TickerRoundTrip ==
  RoundTripped =>
    /\ Len(res.read) = 6
    /\ res.parsed.ok
    /\ res.parsed.val = AsParsed(arg.record.tickers)

\* a ticker scored Infinity has been written and read back with score null
C26_Witness ==
  /\ RoundTripped
  /\ \E p \in 1..Len(arg.record.tickers) :
       /\ arg.record.tickers[p].score = Infinity
       /\ res.parsed.ok
       /\ res.parsed.val[p].score = Null

\* the round trip holds for every mapping whose scores are finite, and the
\* row is always read back into the six cells, each as it was written
C26_FiniteRoundTrip ==
  RoundTripped =>
    /\ res.read = <<arg.row.url, arg.row.title, arg.record.label,
                    NumStr(arg.record.score), arg.record.summary,
                    JsonStringifyTickers(arg.record.tickers)>>
    /\ res.parsed.ok
    /\ FiniteScores(arg.record.tickers)
         => res.parsed.val = AsParsed(arg.record.tickers)

\* a finite mapping of two entries, one explanation holding quotes, a
\* comma, a backslash and a line break, has been read back
C26_QuotedReached ==
  /\ RoundTripped
  /\ Len(arg.record.tickers) = 2
  /\ FiniteScores(arg.record.tickers)
  /\ arg.record.tickers[2].explanation = "a\\b\nc, \"\""
  /\ res.parsed.val = AsParsed(arg.record.tickers)

NonEmptyString(v) == v.ty = "string" /\ v.s # ""

FirstNonEmpty(obj) ==
  IF NonEmptyString(obj.summary) THEN obj.summary.s
  ELSE IF NonEmptyString(obj.reason) THEN obj.reason.s
  ELSE IF NonEmptyString(obj.explanation) THEN obj.explanation.s
  ELSE ""

\* C27: the summary of a coerced record is the first non-empty string among
\* the input's summary, reason and explanation, and "" when there is none.
C27_FirstNonEmpty ==
  (Coerced /\ arg.ty = "object" /\ res.ty = "record")
    => res.summary = FirstNonEmpty(arg)

\* an empty summary field has hidden a non-empty reason
C27_Witness ==
  /\ Coerced
  /\ arg.ty = "object"
  /\ arg.summary = Str("")
  /\ arg.reason = Str("r")
  /\ res.ty = "record"
  /\ res.summary = ""

\* the summary is the first non-empty string when no field before it is
\* the empty string
C27_NoEmptyBefore ==
  (/\ Coerced /\ arg.ty = "object" /\ res.ty = "record"
   /\ arg.summary # Str("")
   /\ NonEmptyString(arg.summary) \/ arg.reason # Str(""))
    => res.summary = FirstNonEmpty(arg)

\* a missing summary has given way to the reason, and a missing summary and
\* reason to the explanation
C27_FallbackReached ==
  /\ Coerced
  /\ arg.ty = "object"
  /\ arg.summary = Undef
  /\ arg.reason = Null \/ arg.reason = Undef
  /\ arg.explanation = Str("e")
  /\ res.ty = "record"
  /\ res.summary = "e"

C28_CsvReached ==
  /\ site = "csv"
  /\ spc = "returned"
  /\ requests = 5

\* the label of the row written for a reply: that of the record, or Error
\* when scoreMarket throws for want of one and returns the sentinel
RowLabel(result) == IF result.ty = "record" THEN result.label ELSE "Error"

\* C29: whatever the text of the reply, a record extracted from it has one
\* of the five bucket labels, so that the row has label Error exactly when
\* no record could be extracted.
C29_ErrorMarksFailure ==
  Extraction =>
    /\ res.ty = "record" => res.label \in Buckets
    /\ RowLabel(res) \in Buckets \cup {"Error"}
    /\ RowLabel(res) = "Error" <=> res.ty # "record"

\* the reply with label constructor has yielded a record whose label is
\* neither a bucket nor Error
C29_Witness ==
  /\ Extraction
  /\ arg = Str(TextConstructor)
  /\ res.ty = "record"
  /\ res.label = InheritedLabel
  /\ res.label \notin Buckets \cup {"Error"}

\* the label Error is never passed through: a row has label Error exactly
\* when no record could be extracted
C29_ErrorNotPassedThrough ==
  Extraction => (RowLabel(res) = "Error" <=> res.ty # "record")

\* replies with label Error have yielded an inferred bucket and no record
C29_ErrorLabelReached ==
  /\ Extraction
  /\ \/ arg = Str(TextErrorLabel) /\ res.ty = "record"
        /\ res.label = "Neutral"
     \/ arg = Str(TextErrorOnly) /\ res = Null

\* in the batch run every outcome with label Error is a failure (a
\* sentinel, an exception, a file that cannot be read), and every failure
\* has label Error
C29_ErrorOutcomes ==
  \A i \in 1..Len(outcomes) :
    outcomes[i].label = "Error" <=> outcomes[i].kind # "record"

\* fetches of /api/stocks in flight
InFlight == fetching + reading

\* C30: whatever the order of clicks and scroll events, at most one fetch
\* of /api/stocks is in flight and at most one load is in progress,
\* isLoading is true exactly while a load is in progress, hence false
\* again after every load has finished, and a call of loadStocks made
\* while isLoading is true starts no fetch.
C30_LoadGuard ==
  /\ [](/\ InFlight <= 1
        /\ loading <= 1
        /\ InFlight = loading
        /\ isLoading <=> loading = 1)
  /\ [][isLoading => (fetching' + reading' <= InFlight
                      /\ loading' <= loading)]_vars

\* a call of loadStocks was refused during a load, and the load has since
\* finished without data, leaving stocksData undefined
C30_Witness ==
  /\ refused >= 1
  /\ stocksData = "undefined"
  /\ loading = 0
  /\ ~isLoading
  /\ InFlight = 0

\* two calls were refused while one fetch is in flight
C30_RefusedReached ==
  /\ refused >= 2
  /\ isLoading
  /\ InFlight = 1

====
